---- MODULE Spec2Model ----
(***************************************************************************)
(* State-machine model of the C64 Ultimate64 stream viewers:               *)
(*   c64_stream_viewer.py          ("cv", OpenCV display)                  *)
(*   c64_stream_viewer_wayland.py  ("wayland", pygame display)             *)
(*   c64_stream_viewer_av.py       ("av", pygame display + audio)          *)
(* The model covers the datagram receive loops, the three copies of        *)
(* C64FrameAssembler and the AudioPlayer of the A/V viewer.                *)
(***************************************************************************)
EXTENDS Integers, Sequences, FiniteSets, TLC

(***************************************************************************)
(* Program constants                                                       *)
(***************************************************************************)
VIDEO_PACKET_SIZE == 780
VIDEO_HEADER_SIZE == 12
AUDIO_PACKET_SIZE == 770
AUDIO_HEADER_SIZE == 2
PIXELS_PER_LINE == 384
BYTES_PER_LINE == 192
LINES_PER_PACKET == 4
PAL_HEIGHT == 272
AUDIO_QUEUE_MAXSIZE == 20
AUDIO_PAYLOAD_BYTES == 768
RECV_SLACK == 100
BITS_PER_PIXEL == 4
UNPACK_SIZE == 10
LAST_FLAG == 32768
LINE_MASK == 32767
\* np.clip(filtered, -32768, 32767)
INT16_MIN == -32768
INT16_MAX == 32767
\* alpha = 0.995 = 1 - 1 / ALPHA_DEN
ALPHA_DEN == 200
\* float32 values are kept in thousandths
FIX == 1000

\* control commands: first byte of a start command and of a stop command (the stream id
\* is added), the second byte of both, and the duration written into a start command
START_COMMAND == 32
STOP_COMMAND == 48
COMMAND_MARKER == 255
DURATION_FOREVER == 0
BYTE_MASK == 255

\* defaults of --video-port and --audio-port
VIDEO_PORT == 11000
AUDIO_PORT == 11001

\* Python's None for current_frame_num: distinct from every 16-bit frame number.
None == -1

(***************************************************************************)
(* Bounds of the model                                                     *)
(***************************************************************************)
\* frame numbers on the wire are 1..MaxFrameNum
MaxFrameNum == 2
\* the stream ends after this many delivered frames
MaxFrameCount == 1
\* the same, for the stream of the observation-window specification
MaxWindowFrames == 2
\* the audio stream ends after this many accepted datagrams
MaxAudio == 2
\* the remembered video stream ends after this many accepted packets
MaxArrivals == 4
\* the same, for the stream that fills the audio queue
MaxQueueAudio == 22
\* blocks fed to the DC filter on its own, and stereo pairs in each
MaxBlocks == 2
BlockPairs == 3

Min(a, b) == IF a < b THEN a ELSE b

(***************************************************************************)
(* Datagrams on the wire.  A video datagram is its length, its first       *)
(* (at most 12) header bytes and its pixel payload.  The payload bytes are *)
(* not enumerated: a payload is named by the frame and line the sender cut *)
(* it from and a variant id, so that two payloads are equal iff these      *)
(* agree.  sent keeps the format fields the sender encoded in the header.  *)
(***************************************************************************)
Lo(v) == v % 256
Hi(v) == (v \div 256) % 256

\* what the hardware (or anyone else) puts on the wire: little-endian header
WireVideo(len, seq, frame, rawline, ppl, lpp, bpp, variant) ==
    [len     |-> len,
     hdr     |-> SubSeq(<<Lo(seq), Hi(seq), Lo(frame), Hi(frame), Lo(rawline), Hi(rawline),
                          Lo(ppl), Hi(ppl), lpp, bpp, 0, 0>>, 1, Min(len, VIDEO_HEADER_SIZE)),
     payload |-> [frame |-> frame, line |-> rawline % LAST_FLAG, id |-> variant],
     sent    |-> [pixels_per_line |-> ppl, lines_per_packet |-> lpp, bits_per_pixel |-> bpp]]

FrameNums == 1..MaxFrameNum
\* starting lines: aligned ones and one unaligned (same packet index as line 0)
LineNums == {0, 2, 4, 8}

\* well-formed video datagrams
GoodVideo ==
    { WireVideo(VIDEO_PACKET_SIZE, 0, f, l + (IF fl THEN LAST_FLAG ELSE 0),
                PIXELS_PER_LINE, LINES_PER_PACKET, BITS_PER_PIXEL, "a")
        : f \in FrameNums, l \in LineNums, fl \in BOOLEAN }
    \cup
    \* the largest starting line the 15-bit field can carry
    { WireVideo(VIDEO_PACKET_SIZE, 0, 1, LINE_MASK + (IF fl THEN LAST_FLAG ELSE 0),
                PIXELS_PER_LINE, LINES_PER_PACKET, BITS_PER_PIXEL, "a")
        : fl \in BOOLEAN }

\* malformed video datagrams: a wrong length, or one header field off
BadVideo ==
    { WireVideo(n, 0, 1, 4 + LAST_FLAG, PIXELS_PER_LINE, LINES_PER_PACKET, BITS_PER_PIXEL, "a")
        : n \in {0, 9, 770, 779, 781, 1000} }
    \cup
    { WireVideo(VIDEO_PACKET_SIZE, 0, 1, 4 + LAST_FLAG, ppl, LINES_PER_PACKET, BITS_PER_PIXEL, "a")
        : ppl \in {0, 320, 385, 32769} }
    \cup
    { WireVideo(VIDEO_PACKET_SIZE, 0, 1, 4 + LAST_FLAG, PIXELS_PER_LINE, lpp, BITS_PER_PIXEL, "a")
        : lpp \in {0, 1, 8} }
    \cup
    { WireVideo(VIDEO_PACKET_SIZE, 0, 1, 4 + LAST_FLAG, PIXELS_PER_LINE, LINES_PER_PACKET, bpp, "a")
        : bpp \in {0, 8} }

VideoDatagrams == GoodVideo \cup BadVideo

(***************************************************************************)
(* State                                                                   *)
(***************************************************************************)
VARIABLES
    viewer,        \* which program runs: "cv", "wayland" or "av"
    no_audio,      \* args.no_audio (A/V viewer; the other two have no audio path)
    pc,            \* main thread: "recv" (about to read a socket), "check" (add_packet
                   \* has returned, is_complete() is next), "aborted" (exception left main)
    err,           \* the exception that left main, "none" otherwise
    assembler,     \* the C64FrameAssembler object the loop holds
    frame,         \* frame / frame_surface returned by the latest get_frame call; it is
                   \* dead once the next packet is stored, and forgotten there
    frame_count,   \* frames delivered
    audio_queue,   \* AudioPlayer.audio_queue
    dc_filter_state, \* AudioPlayer.dc_filter_state
    packets_played,  \* AudioPlayer.packets_played
    audio_count,   \* audio datagrams accepted by main
    tpc,           \* playback thread: "get" (in audio_queue.get), "busy" (sound playing)
    terr,          \* the exception the playback thread caught while decoding or filtering
                   \* a block, "none" otherwise
    sinceLines,    \* history: line_num of the add_packet calls on this assembler object
                   \* since the latest call whose frame_num differed from the call before
    sinceLast,     \* history: line_num of the latest of those calls with is_last, or None
    callFrame,     \* history: frame_num of the latest add_packet call on this object
    win,           \* history: an observation window over consecutive stored packets
    rx,            \* history: the datagram the latest step received, by what the sender put
                   \* in it: "video-ok", "video-bad", "audio-ok", "audio-bad"; "none" when the
                   \* latest step received nothing
    lastCall,      \* history: the arguments of the add_packet call that has just returned
    probe,         \* the input and the result of a function exercised on its own (header
                   \* decoding, pixel decoding, the DC filter, the control command);
                   \* NoProbe while a viewer runs
    ultimate_host, \* A/V viewer: args.ultimate_host or C64_HOST, "" when neither is set
    no_auto_stream,  \* args.no_auto_stream
    streams_started, \* main's streams_started
    commands,      \* the calls of send_ultimate64_stream_command main has made, in order:
                   \* stream_id, enable, the value returned, and the state of the UDP
                   \* sockets at the time of the call
    socks,         \* video_sock / audio_sock: "none" (not created yet), "open", "closed",
                   \* "failed" (socket creation raised and main returned 1)
    running,       \* AudioPlayer.running
    audio_muted,   \* main's audio_muted
    hist           \* history: the accepted video packets so far and the frame numbers
                   \* delivered so far; kept only while hist.on

vars == <<viewer, no_audio, pc, err, assembler, frame, frame_count, audio_queue,
          dc_filter_state, packets_played, audio_count, tpc, terr, sinceLines, sinceLast,
          callFrame, win, rx, lastCall, probe, ultimate_host, no_auto_stream,
          streams_started, commands, socks, running, audio_muted, hist>>

videoVars == <<assembler, frame, frame_count, sinceLines, sinceLast, callFrame, win, lastCall>>
audioVars == <<audio_queue, dc_filter_state, packets_played, audio_count, tpc, terr>>
sessionVars == <<ultimate_host, no_auto_stream, streams_started, commands, socks, running,
                 audio_muted>>

NoProbe == [fn |-> "none"]

(***************************************************************************)
(* Python and library primitives                                           *)
(***************************************************************************)
\* socket.recvfrom(bufsize): a longer datagram is cut to bufsize bytes
recvfrom(d, bufsize) ==
    [len     |-> Min(d.len, bufsize),
     hdr     |-> SubSeq(d.hdr, 1, Min(Len(d.hdr), bufsize)),
     payload |-> d.payload]

\* data[:n] of the header bytes
Prefix(data, n) == SubSeq(data.hdr, 1, Min(n, Len(data.hdr)))

\* little-endian unsigned 16-bit field at byte offset i (1-based)
U16(b, i) == b[i] + 256 * b[i + 1]

\* struct.unpack('<HHHHBB', b) raises struct.error unless b has exactly 10 bytes
struct_unpack_raises(b) == Len(b) # UNPACK_SIZE

struct_unpack(b) ==
    [seq_num          |-> U16(b, 1),
     frame_num        |-> U16(b, 3),
     line_num         |-> U16(b, 5),
     pixels_per_line  |-> U16(b, 7),
     lines_per_packet |-> b[9],
     bits_per_pixel   |-> b[10]]

\* a & b on non-negative integers
RECURSIVE BitAnd(_, _)
BitAnd(a, b) ==
    IF a = 0 \/ b = 0 THEN 0
    ELSE (a % 2) * (b % 2) + 2 * BitAnd(a \div 2, b \div 2)

\* dict: a sequence of entries in insertion order, keys unique
HasKey(packets, k) == \E i \in 1..Len(packets) : packets[i].idx = k

\* mutant: a list append in place of the keyed store
dict_set_appends(packets, k, line_num, pixel_data) ==
    Append(packets, [idx |-> k, line_num |-> line_num, pixel_data |-> pixel_data])

\* packets[k] = (line_num, pixel_data): an existing key keeps its place
dict_set(packets, k, line_num, pixel_data) ==
    LET e == [idx |-> k, line_num |-> line_num, pixel_data |-> pixel_data]
    IN  IF HasKey(packets, k)
        THEN [i \in 1..Len(packets) |-> IF packets[i].idx = k THEN e ELSE packets[i]]
        ELSE Append(packets, e)

Keys(packets) == { packets[i].idx : i \in 1..Len(packets) }

(***************************************************************************)
(* C64FrameAssembler, c64_stream_viewer.py                                 *)
(***************************************************************************)
\* C64FrameAssembler()
NewAssembler ==
    [current_frame_num |-> None,
     packets           |-> <<>>,
     expected_packets  |-> 0,
     height            |-> PAL_HEIGHT]

\* line_num // lines_per_packet raises ZeroDivisionError for lines_per_packet = 0
add_packet_raises(lines_per_packet) == lines_per_packet = 0

\* mutant: the last packet's index is taken for the packet count
add_packet_miscounts(a, frame_num, line_num, lines_per_packet, pixel_data, is_last) ==
    LET switch == a.current_frame_num # frame_num
        cleared == IF switch
                   THEN [a EXCEPT !.current_frame_num = frame_num,
                                  !.packets = <<>>,
                                  !.expected_packets = 0]
                   ELSE a
        packet_index == line_num \div lines_per_packet
        stored == [cleared EXCEPT
                     !.packets = dict_set(cleared.packets, packet_index, line_num, pixel_data)]
    IN  IF is_last
        THEN [stored EXCEPT !.expected_packets = packet_index,
                            !.height = line_num + lines_per_packet]
        ELSE stored

\* mutant: a frame switch records the new frame number but keeps the stored packets
\* mutant: a frame switch clears the packets but keeps expected_packets
add_packet_sticky(a, frame_num, line_num, lines_per_packet, pixel_data, is_last) ==
    LET a1 == IF a.current_frame_num # frame_num
              THEN [a EXCEPT !.current_frame_num = frame_num, !.packets = <<>>]
              ELSE a
        packet_index == line_num \div lines_per_packet
        a2 == [a1 EXCEPT !.packets = dict_set(@, packet_index, line_num, pixel_data)]
    IN  IF is_last
        THEN [a2 EXCEPT !.expected_packets = packet_index + 1,
                        !.height = line_num + lines_per_packet]
        ELSE a2

add_packet_keeps(a, frame_num, line_num, lines_per_packet, pixel_data, is_last) ==
    LET switch == a.current_frame_num # frame_num
        cleared == IF switch
                   THEN [a EXCEPT !.current_frame_num = frame_num,
                                  !.expected_packets = 0]
                   ELSE a
        packet_index == line_num \div lines_per_packet
        stored == [cleared EXCEPT
                     !.packets = dict_set(cleared.packets, packet_index, line_num, pixel_data)]
    IN  IF is_last
        THEN [stored EXCEPT !.expected_packets = packet_index + 1,
                            !.height = line_num + lines_per_packet]
        ELSE stored

\* mutant: only the first flagged packet an object sees sets its height
add_packet_first_height(a, frame_num, line_num, lines_per_packet, pixel_data, is_last) ==
    LET switch == a.current_frame_num # frame_num
        cleared == IF switch
                   THEN [a EXCEPT !.current_frame_num = frame_num,
                                  !.packets = <<>>,
                                  !.expected_packets = 0]
                   ELSE a
        packet_index == line_num \div lines_per_packet
        stored == [cleared EXCEPT
                     !.packets = dict_set(cleared.packets, packet_index, line_num, pixel_data)]
    IN  IF is_last
        THEN [stored EXCEPT !.expected_packets = packet_index + 1,
                            !.height = IF a.height = PAL_HEIGHT
                                       THEN line_num + lines_per_packet ELSE a.height]
        ELSE stored

add_packet(a, frame_num, line_num, lines_per_packet, pixel_data, is_last) ==
    LET switch == a.current_frame_num # frame_num
        cleared == IF switch
                   THEN [a EXCEPT !.current_frame_num = frame_num,
                                  !.packets = <<>>,
                                  !.expected_packets = 0]
                   ELSE a
        packet_index == line_num \div lines_per_packet
        stored == [cleared EXCEPT
                     !.packets = dict_set(cleared.packets, packet_index, line_num, pixel_data)]
    IN  IF is_last
        THEN [stored EXCEPT !.expected_packets = packet_index + 1,
                            !.height = line_num + lines_per_packet]
        ELSE stored

\* mutant: the guard on expected_packets = 0 is missing
is_complete_unguarded(a) == Len(a.packets) >= a.expected_packets

is_complete(a) ==
    IF a.expected_packets = 0 THEN FALSE
    ELSE Len(a.packets) >= a.expected_packets

NoFrame == [num |-> None, height |-> 0, rows |-> <<>>]

\* mutant: the assembly loop breaks one line late
SubLines_late(line_num, height) ==
    { o \in 0..(LINES_PER_PACKET - 1) :
        \A o2 \in 0..o : ~(line_num + o2 > height) }

\* mutant: the assembly loop has no break at the frame height
SubLines_unclipped(line_num, height) == 0..(LINES_PER_PACKET - 1)

\* the line offsets of one packet that the assembly loop handles before its break
SubLines(line_num, height) ==
    { o \in 0..(LINES_PER_PACKET - 1) :
        \A o2 \in 0..o : ~(line_num + o2 >= height) }

\* rows the assembly loop writes, with the packets writing them (positions in packets)
Writers(a, r) ==
    { i \in 1..Len(a.packets) :
        \E o \in SubLines(a.packets[i].line_num, a.height) : a.packets[i].line_num + o = r }

WrittenRows(a) ==
    UNION { { a.packets[i].line_num + o : o \in SubLines(a.packets[i].line_num, a.height) }
            : i \in 1..Len(a.packets) }

\* frame[current_line, x] = ... raises IndexError outside the height x 384 buffer
get_frame_raises(a) ==
    is_complete(a) /\ \E r \in WrittenRows(a) : r < 0 \/ r >= a.height

\* the assembled frame: for each written row, the payload and sub-line it was decoded
\* from (the packet latest in dict order wins); rows never written keep np.zeros
get_frame(a) ==
    IF ~is_complete(a) THEN NoFrame
    ELSE [num    |-> a.current_frame_num,
          height |-> a.height,
          rows   |-> [r \in WrittenRows(a) |->
                        LET ws == Writers(a, r)
                            i  == CHOOSE w \in ws : \A w2 \in ws : w2 <= w
                        IN  [pixel_data |-> a.packets[i].pixel_data,
                             line_offset |-> r - a.packets[i].line_num]]]

\* byte j of a payload: the payloads of the model differ byte by byte, and over the 768
\* bytes of one payload every byte value occurs
PayloadByte(pixel_data, j) ==
    (16 * pixel_data.frame + pixel_data.line + 37 * j) % 256

\* mutant: the high nibble is taken for the left pixel
decode_byte_swapped(byte_val) ==
    << BitAnd(byte_val \div 16, 15), BitAnd(byte_val, 15) >>

\* pixel1 = byte_val & 0x0F, pixel2 = (byte_val >> 4) & 0x0F: the two palette indices
decode_byte(byte_val) ==
    << BitAnd(byte_val, 15), BitAnd(byte_val \div 16, 15) >>

\* the columns the inner loop writes in a row: x and x + 1 for each byte of the slice,
\* each under its own test against PIXELS_PER_LINE
WrittenColumns ==
    UNION { { x \in {2 * byte_idx, 2 * byte_idx + 1} : x < PIXELS_PER_LINE }
            : byte_idx \in 0..(BYTES_PER_LINE - 1) }

\* the palette index of frame[row, x] for a written row: byte x // 2 of the row's
\* 192-byte slice of its packet, pixel1 at x = 2 * byte_idx, pixel2 at x + 1
Pixel(fr, row, x) ==
    LET src == fr.rows[row]
        line_start == src.line_offset * BYTES_PER_LINE
    IN  decode_byte(PayloadByte(src.pixel_data, line_start + x \div 2))[1 + (x % 2)]

(***************************************************************************)
(* History bookkeeping (not program state)                                 *)
(***************************************************************************)
NoWin == [frame |-> None, pre |-> None, got |-> {}]

\* The window over the stored packets.  With mark it starts at this packet and records
\* the frame number the assembler was tracking before it; without, it
\* grows while packets of its frame arrive, each aligned line at most once, and is
\* dropped otherwise.
WinStep(w, a, f, l, fl, mark) ==
    IF mark
    THEN IF l % LINES_PER_PACKET = 0
         THEN [frame |-> f, pre |-> a.current_frame_num, got |-> {<<l, fl>>}]
         ELSE NoWin
    ELSE IF w = NoWin \/ f # w.frame \/ l % LINES_PER_PACKET # 0
            \/ \E x \in w.got : x[1] = l
         THEN NoWin
         ELSE [w EXCEPT !.got = @ \cup {<<l, fl>>}]

\* lines 0, 4, ..., L
LinesUpTo(L) == { l \in 0..L : l % LINES_PER_PACKET = 0 }

\* the window holds every packet of a frame: lines 0, 4, ..., L, only line L flagged last
WinComplete(w) ==
    /\ w # NoWin
    /\ \E L \in { x[1] : x \in w.got } : w.got = { <<l, l = L>> : l \in LinesUpTo(L) }

\* history of a run: the accepted packets by frame number, packet index and flag, whether
\* a (frame number, packet index) pair was accepted twice, and the frame numbers delivered
NoHist == [on |-> FALSE, arrived |-> {}, repeated |-> FALSE, delivered |-> <<>>]

HistArrive(h, f, idx, last) ==
    IF ~h.on THEN h
    ELSE [h EXCEPT !.arrived = @ \cup {[frame |-> f, idx |-> idx, last |-> last]},
                   !.repeated = @ \/ \E p \in h.arrived : p.frame = f /\ p.idx = idx]

HistDeliver(h, f) == IF ~h.on THEN h ELSE [h EXCEPT !.delivered = Append(@, f)]

NoCall == [frame_num |-> None, line_num |-> 0, pixel_data |-> [frame |-> 0, line |-> 0, id |-> "a"],
           is_last |-> FALSE]

\* a video datagram as the sender formed it
WellFormedVideo(d) ==
    /\ d.len = VIDEO_PACKET_SIZE
    /\ d.sent.pixels_per_line = PIXELS_PER_LINE
    /\ d.sent.lines_per_packet = LINES_PER_PACKET
    /\ d.sent.bits_per_pixel = BITS_PER_PIXEL

SinceLinesStep(s, prev, f, l) ==
    IF prev # f THEN {l} ELSE s \cup {l}

SinceLastStep(s, prev, f, l, fl) ==
    IF fl THEN l ELSE IF prev # f THEN None ELSE s

(***************************************************************************)
(* main(), c64_stream_viewer.py                                            *)
(***************************************************************************)
Rejected == [kind |-> "reject", frame_num |-> 0, line_num |-> 0, lines_per_packet |-> 0,
             pixel_data |-> [frame |-> 0, line |-> 0, id |-> "a"], is_last |-> FALSE]

Raised(what) == [Rejected EXCEPT !.kind = what]

\* mutant: the last-packet flag is read but not masked off the line field
parse_cv_unmasked(data) ==
    IF data.len # VIDEO_PACKET_SIZE THEN Rejected
    ELSE
      LET h == struct_unpack(Prefix(data, UNPACK_SIZE))
      IN  IF \/ h.pixels_per_line # PIXELS_PER_LINE
             \/ h.lines_per_packet # LINES_PER_PACKET
             \/ h.bits_per_pixel # BITS_PER_PIXEL
          THEN Rejected
          ELSE [kind |-> "accept", frame_num |-> h.frame_num, line_num |-> h.line_num,
                lines_per_packet |-> h.lines_per_packet, pixel_data |-> data.payload,
                is_last |-> BitAnd(h.line_num, LAST_FLAG) # 0]

\* data -> what the loop body does with it, up to the add_packet call
parse_cv(data) ==
    IF data.len # VIDEO_PACKET_SIZE THEN Rejected
    ELSE IF struct_unpack_raises(Prefix(data, UNPACK_SIZE)) THEN Raised("struct.error")
    ELSE
      LET h == struct_unpack(Prefix(data, UNPACK_SIZE))
          is_last == BitAnd(h.line_num, LAST_FLAG) # 0
          line_num == BitAnd(h.line_num, LINE_MASK)
      IN  IF \/ h.pixels_per_line # PIXELS_PER_LINE
             \/ h.lines_per_packet # LINES_PER_PACKET
             \/ h.bits_per_pixel # BITS_PER_PIXEL
          THEN Rejected
          ELSE IF add_packet_raises(h.lines_per_packet) THEN Raised("ZeroDivisionError")
          ELSE [kind |-> "accept", frame_num |-> h.frame_num, line_num |-> line_num,
                lines_per_packet |-> h.lines_per_packet, pixel_data |-> data.payload,
                is_last |-> is_last]

\* the effect of one parsed datagram on the loop's state, common to the three loops
Handle(d, r, a2, mark) ==
    /\ rx' = IF WellFormedVideo(d) THEN "video-ok" ELSE "video-bad"
    /\ IF r.kind = "reject"
       THEN UNCHANGED <<pc, err, assembler, frame, sinceLines, sinceLast, callFrame, win,
                        lastCall, hist>>
       ELSE IF r.kind = "accept"
       THEN
         /\ assembler' = a2
         /\ lastCall' = [frame_num |-> r.frame_num, line_num |-> r.line_num,
                         pixel_data |-> r.pixel_data, is_last |-> r.is_last]
         /\ pc' = "check"
         /\ frame' = NoFrame
         /\ sinceLines' = SinceLinesStep(sinceLines, callFrame, r.frame_num, r.line_num)
         /\ sinceLast' = SinceLastStep(sinceLast, callFrame, r.frame_num, r.line_num, r.is_last)
         /\ callFrame' = r.frame_num
         /\ win' = WinStep(win, assembler, r.frame_num, r.line_num, r.is_last, mark)
         /\ hist' = HistArrive(hist, r.frame_num, r.line_num \div r.lines_per_packet,
                               r.is_last)
         /\ UNCHANGED err
       ELSE
         /\ pc' = "aborted"
         /\ err' = r.kind
         /\ UNCHANGED <<assembler, frame, sinceLines, sinceLast, callFrame, win, lastCall,
                        hist>>

\* one datagram from sock.recvfrom up to and including assembler.add_packet
RecvVideo_cv(d, mark) ==
    /\ viewer = "cv"
    /\ pc = "recv"
    /\ LET data == recvfrom(d, VIDEO_PACKET_SIZE + RECV_SLACK)
           r == parse_cv(data)
       IN  Handle(d, r, IF r.kind = "accept"
                     THEN add_packet(assembler, r.frame_num, r.line_num,
                                     r.lines_per_packet, r.pixel_data, r.is_last)
                     ELSE assembler, mark)
    /\ UNCHANGED <<viewer, no_audio, frame_count>>
    /\ UNCHANGED audioVars
    /\ UNCHANGED <<probe, sessionVars>>

\* the effect of the completeness check, common to the three loops
Deliver(complete, raises, fr) ==
    /\ rx' = "none"
    /\ lastCall' = NoCall
    /\ IF ~complete
       THEN /\ pc' = "recv"
            /\ UNCHANGED <<err, assembler, frame, frame_count, sinceLines, sinceLast,
                           callFrame, hist>>
       ELSE IF raises
       THEN /\ pc' = "aborted"
            /\ err' = "IndexError"
            /\ UNCHANGED <<assembler, frame, frame_count, sinceLines, sinceLast, callFrame,
                           hist>>
       ELSE /\ frame' = fr
            /\ hist' = IF fr # NoFrame THEN HistDeliver(hist, assembler.current_frame_num)
                                        ELSE hist
            /\ frame_count' = IF fr # NoFrame THEN frame_count + 1 ELSE frame_count
            /\ assembler' = NewAssembler
            /\ sinceLines' = {}
            /\ sinceLast' = None
            /\ callFrame' = None
            /\ pc' = "recv"
            /\ UNCHANGED err

\* from assembler.is_complete() to the end of the loop body
Check_cv ==
    /\ viewer = "cv"
    /\ pc = "check"
    /\ Deliver(is_complete(assembler), get_frame_raises(assembler), get_frame(assembler))
    /\ UNCHANGED <<viewer, no_audio, win>>
    /\ UNCHANGED audioVars
    /\ UNCHANGED <<probe, sessionVars>>

(***************************************************************************)
(* C64FrameAssembler and main(), c64_stream_viewer_wayland.py              *)
(***************************************************************************)
\* mutant: the stored packets survive a frame switch
add_packet_wayland_keeps(a, frame_num, line_num, lines_per_packet, pixel_data, is_last) ==
    add_packet_keeps(a, frame_num, line_num, lines_per_packet, pixel_data, is_last)

add_packet_wayland(a, frame_num, line_num, lines_per_packet, pixel_data, is_last) ==
    LET switch == a.current_frame_num # frame_num
        cleared == IF switch
                   THEN [a EXCEPT !.current_frame_num = frame_num,
                                  !.packets = <<>>,
                                  !.expected_packets = 0]
                   ELSE a
        packet_index == line_num \div lines_per_packet
        stored == [cleared EXCEPT
                     !.packets = dict_set(cleared.packets, packet_index, line_num, pixel_data)]
    IN  IF is_last
        THEN [stored EXCEPT !.expected_packets = packet_index + 1,
                            !.height = line_num + lines_per_packet]
        ELSE stored

\* mutant: the guard on expected_packets = 0 is missing
is_complete_wayland_unguarded(a) == Len(a.packets) >= a.expected_packets

is_complete_wayland(a) ==
    IF a.expected_packets = 0 THEN FALSE
    ELSE Len(a.packets) >= a.expected_packets

\* surface.set_at((x, current_line), ...) raises IndexError outside the surface
get_frame_surface_raises_wayland(a) ==
    is_complete_wayland(a) /\ \E r \in WrittenRows(a) : r < 0 \/ r >= a.height

get_frame_surface_wayland(a) ==
    IF ~is_complete_wayland(a) THEN NoFrame
    ELSE [num    |-> a.current_frame_num,
          height |-> a.height,
          rows   |-> [r \in WrittenRows(a) |->
                        LET ws == Writers(a, r)
                            i  == CHOOSE w \in ws : \A w2 \in ws : w2 <= w
                        IN  [pixel_data |-> a.packets[i].pixel_data,
                             line_offset |-> r - a.packets[i].line_num]]]

\* mutant: bits-per-pixel is not validated
parse_wayland_any_depth(data) ==
    IF data.len # VIDEO_PACKET_SIZE THEN Rejected
    ELSE IF struct_unpack_raises(Prefix(data, UNPACK_SIZE)) THEN Raised("struct.error")
    ELSE
      LET h == struct_unpack(Prefix(data, UNPACK_SIZE))
          is_last == BitAnd(h.line_num, LAST_FLAG) # 0
          line_num == BitAnd(h.line_num, LINE_MASK)
      IN  IF \/ h.pixels_per_line # PIXELS_PER_LINE
             \/ h.lines_per_packet # LINES_PER_PACKET
          THEN Rejected
          ELSE [kind |-> "accept", frame_num |-> h.frame_num, line_num |-> line_num,
                lines_per_packet |-> h.lines_per_packet, pixel_data |-> data.payload,
                is_last |-> is_last]

parse_wayland(data) ==
    IF data.len # VIDEO_PACKET_SIZE THEN Rejected
    ELSE IF struct_unpack_raises(Prefix(data, UNPACK_SIZE)) THEN Raised("struct.error")
    ELSE
      LET h == struct_unpack(Prefix(data, UNPACK_SIZE))
          is_last == BitAnd(h.line_num, LAST_FLAG) # 0
          line_num == BitAnd(h.line_num, LINE_MASK)
      IN  IF \/ h.pixels_per_line # PIXELS_PER_LINE
             \/ h.lines_per_packet # LINES_PER_PACKET
             \/ h.bits_per_pixel # BITS_PER_PIXEL
          THEN Rejected
          ELSE IF add_packet_raises(h.lines_per_packet) THEN Raised("ZeroDivisionError")
          ELSE [kind |-> "accept", frame_num |-> h.frame_num, line_num |-> line_num,
                lines_per_packet |-> h.lines_per_packet, pixel_data |-> data.payload,
                is_last |-> is_last]

RecvVideo_wayland(d, mark) ==
    /\ viewer = "wayland"
    /\ pc = "recv"
    /\ LET data == recvfrom(d, VIDEO_PACKET_SIZE + RECV_SLACK)
           r == parse_wayland(data)
       IN  Handle(d, r, IF r.kind = "accept"
                     THEN add_packet_wayland(assembler, r.frame_num, r.line_num,
                                             r.lines_per_packet, r.pixel_data, r.is_last)
                     ELSE assembler, mark)
    /\ UNCHANGED <<viewer, no_audio, frame_count>>
    /\ UNCHANGED audioVars
    /\ UNCHANGED <<probe, sessionVars>>

Check_wayland ==
    /\ viewer = "wayland"
    /\ pc = "check"
    /\ Deliver(is_complete_wayland(assembler), get_frame_surface_raises_wayland(assembler),
               get_frame_surface_wayland(assembler))
    /\ UNCHANGED <<viewer, no_audio, win>>
    /\ UNCHANGED audioVars
    /\ UNCHANGED <<probe, sessionVars>>

(***************************************************************************)
(* C64FrameAssembler and main(), c64_stream_viewer_av.py                   *)
(***************************************************************************)
add_packet_av(a, frame_num, line_num, lines_per_packet, pixel_data, is_last) ==
    LET switch == a.current_frame_num # frame_num
        cleared == IF switch
                   THEN [a EXCEPT !.current_frame_num = frame_num,
                                  !.packets = <<>>,
                                  !.expected_packets = 0]
                   ELSE a
        packet_index == line_num \div lines_per_packet
        stored == [cleared EXCEPT
                     !.packets = dict_set(cleared.packets, packet_index, line_num, pixel_data)]
    IN  IF is_last
        THEN [stored EXCEPT !.expected_packets = packet_index + 1,
                            !.height = line_num + lines_per_packet]
        ELSE stored

is_complete_av(a) ==
    a.expected_packets > 0 /\ Len(a.packets) >= a.expected_packets

get_frame_surface_raises_av(a) ==
    is_complete_av(a) /\ \E r \in WrittenRows(a) : r < 0 \/ r >= a.height

get_frame_surface_av(a) ==
    IF ~is_complete_av(a) THEN NoFrame
    ELSE [num    |-> a.current_frame_num,
          height |-> a.height,
          rows   |-> [r \in WrittenRows(a) |->
                        LET ws == Writers(a, r)
                            i  == CHOOSE w \in ws : \A w2 \in ws : w2 <= w
                        IN  [pixel_data |-> a.packets[i].pixel_data,
                             line_offset |-> r - a.packets[i].line_num]]]

\* mutant: only the datagram length is validated
parse_av_length_only(data) ==
    IF data.len = VIDEO_PACKET_SIZE
    THEN LET h == struct_unpack(Prefix(data, UNPACK_SIZE))
         IN  IF add_packet_raises(h.lines_per_packet)
             THEN Raised("ZeroDivisionError")
             ELSE [kind |-> "accept", frame_num |-> h.frame_num,
                   line_num |-> BitAnd(h.line_num, LINE_MASK),
                   lines_per_packet |-> h.lines_per_packet,
                   pixel_data |-> data.payload,
                   is_last |-> BitAnd(h.line_num, LAST_FLAG) # 0]
    ELSE Rejected

parse_av(data) ==
    IF data.len = VIDEO_PACKET_SIZE
    THEN IF struct_unpack_raises(Prefix(data, UNPACK_SIZE)) THEN Raised("struct.error")
         ELSE
           LET h == struct_unpack(Prefix(data, UNPACK_SIZE))
               is_last == BitAnd(h.line_num, LAST_FLAG) # 0
               line_num == BitAnd(h.line_num, LINE_MASK)
           IN  IF /\ h.pixels_per_line = PIXELS_PER_LINE
                  /\ h.lines_per_packet = LINES_PER_PACKET
                  /\ h.bits_per_pixel = BITS_PER_PIXEL
               THEN IF add_packet_raises(h.lines_per_packet)
                    THEN Raised("ZeroDivisionError")
                    ELSE [kind |-> "accept", frame_num |-> h.frame_num,
                          line_num |-> line_num,
                          lines_per_packet |-> h.lines_per_packet,
                          pixel_data |-> data.payload, is_last |-> is_last]
               ELSE Rejected
    ELSE Rejected

RecvVideo_av(d, mark) ==
    /\ viewer = "av"
    /\ pc = "recv"
    /\ LET data == recvfrom(d, VIDEO_PACKET_SIZE + RECV_SLACK)
           r == parse_av(data)
       IN  Handle(d, r, IF r.kind = "accept"
                     THEN add_packet_av(assembler, r.frame_num, r.line_num,
                                        r.lines_per_packet, r.pixel_data, r.is_last)
                     ELSE assembler, mark)
    /\ UNCHANGED <<viewer, no_audio, frame_count>>
    /\ UNCHANGED audioVars
    /\ UNCHANGED <<probe, sessionVars>>

Check_av ==
    /\ viewer = "av"
    /\ pc = "check"
    /\ Deliver(is_complete_av(assembler), get_frame_surface_raises_av(assembler),
               get_frame_surface_av(assembler))
    /\ UNCHANGED <<viewer, no_audio, win>>
    /\ UNCHANGED audioVars
    /\ UNCHANGED <<probe, sessionVars>>

(***************************************************************************)
(* Audio path, c64_stream_viewer_av.py                                     *)
(***************************************************************************)
\* An audio datagram is its length and its PCM content.  The 192 sample pairs are not
\* enumerated: the content is named by a pattern, and Sample gives its samples.
PcmIds == {"silence", "dc"}

\* sample of channel ch (0 left, 1 right) in pair i of the pattern
Sample(pcm, i, ch) ==
    IF pcm = "dc" THEN (IF ch = 0 THEN 1000 ELSE -1000) ELSE 0

WireAudio(len, pcm) == [len |-> len, hdr |-> <<>>, payload |-> pcm]

AudioDatagrams ==
    { WireAudio(AUDIO_PACKET_SIZE, p) : p \in PcmIds }
    \cup { WireAudio(n, "dc") : n \in {0, 1, 769, 771, 772, 1000} }

\* data[lo:hi] of a datagram: the number of bytes the slice holds
SliceLen(len, lo, hi) ==
    IF Min(len, hi) > lo THEN Min(len, hi) - lo ELSE 0

\* np.frombuffer(.., dtype=np.int16) raises ValueError unless the byte count is even;
\* reshape(-1, 2) raises ValueError unless the sample count is even
decode_raises(audio_data) ==
    \/ audio_data.nbytes % 2 # 0
    \/ (audio_data.nbytes \div 2) % 2 # 0

NumPairs(audio_data) == audio_data.nbytes \div 4

\* mutant: a new block goes to the front of the queue
add_audio_packet_front(q, audio_data) ==
    IF Len(q) >= AUDIO_QUEUE_MAXSIZE THEN q ELSE <<audio_data>> \o q

\* mutant: a full queue gives up its oldest block
add_audio_packet_drop_oldest(q, audio_data) ==
    IF Len(q) >= AUDIO_QUEUE_MAXSIZE THEN Append(Tail(q), audio_data)
    ELSE Append(q, audio_data)

\* AudioPlayer.add_audio_packet
add_audio_packet(q, audio_data) ==
    IF Len(q) >= AUDIO_QUEUE_MAXSIZE THEN q ELSE Append(q, audio_data)

\* self.dc_filter_state after _remove_dc_offset(audio_array): stereo[-1] once the loop
\* has run at least once
remove_dc_offset_state(state, audio_data) ==
    IF NumPairs(audio_data) = 0 THEN state
    ELSE << Sample(audio_data.pcm, NumPairs(audio_data) - 1, 0),
            Sample(audio_data.pcm, NumPairs(audio_data) - 1, 1) >>

\* alpha * y on thousandths, rounded towards zero like the magnitude
mul_alpha(y) ==
    IF y >= 0 THEN y - (y \div ALPHA_DEN) ELSE -((-y) - ((-y) \div ALPHA_DEN))

\* mutant: no clipping before the conversion to int16
np_clip_none(v) == v

\* np.clip(v, -32768, 32767) on thousandths
np_clip(v) ==
    IF v < INT16_MIN * FIX THEN INT16_MIN * FIX
    ELSE IF v > INT16_MAX * FIX THEN INT16_MAX * FIX
    ELSE v

\* .astype(np.int16) of a float within range: the fraction is dropped
astype_int16(v) == IF v >= 0 THEN v \div FIX ELSE -((-v) \div FIX)

\* self.dc_filter_state as iteration i of the sample loop reads it: the value carried in
\* for the first pair, stereo[-1] afterwards (the assignment sits inside the loop)
state_at(state, stereo, i) == IF i = 1 THEN state ELSE stereo[Len(stereo)]

\* _remove_dc_offset on a block of stereo pairs (stereo[i] = <<left, right>>):
\* filtered in thousandths, the int16 output, the value subtracted from each sample and
\* the state left behind
remove_dc_offset(state, stereo) ==
    LET n == Len(stereo)
        filtered[i \in 1..n] ==
            [ch \in 1..2 |->
                FIX * stereo[i][ch] - FIX * state_at(state, stereo, i)[ch]
                + (IF i > 1 THEN mul_alpha(filtered[i - 1][ch]) ELSE 0)]
    IN  [filtered |-> filtered,
         out      |-> [i \in 1..n |->
                         [ch \in 1..2 |-> astype_int16(np_clip(filtered[i][ch]))]],
         sub      |-> [i \in 1..n |-> state_at(state, stereo, i)],
         state    |-> IF n = 0 THEN state ELSE stereo[n]]

\* one audio datagram, from audio_sock.recvfrom to audio_count += 1
RecvAudio_av(d) ==
    /\ viewer = "av"
    /\ ~no_audio
    /\ ~audio_muted
    /\ pc = "recv"
    /\ LET data == recvfrom(d, AUDIO_PACKET_SIZE + RECV_SLACK)
       IN  IF data.len = AUDIO_PACKET_SIZE
           THEN LET audio_data ==
                      [nbytes |-> SliceLen(data.len, AUDIO_HEADER_SIZE,
                                           AUDIO_HEADER_SIZE + AUDIO_PAYLOAD_BYTES),
                       pcm    |-> data.payload]
                IN  /\ audio_queue' = add_audio_packet(audio_queue, audio_data)
                    /\ audio_count' = audio_count + 1
           ELSE UNCHANGED <<audio_queue, audio_count>>
    /\ rx' = IF d.len = AUDIO_PACKET_SIZE THEN "audio-ok" ELSE "audio-bad"
    /\ UNCHANGED <<viewer, no_audio, pc, err, dc_filter_state, packets_played, tpc, terr>>
    /\ UNCHANGED videoVars
    /\ UNCHANGED <<probe, sessionVars, hist>>

\* an attribute of the AudioPlayer object that __init__ has not assigned yet
Unset == <<>>

\* _play_audio: a block leaves the queue, is decoded and filtered, and its sound starts;
\* played tells whether make_sound / channel.play succeeded (an exception is caught and
\* printed, and the loop goes on at top, its head).  Reading an attribute that is not
\* assigned yet raises AttributeError, which is caught in the same way.
PlayGetTo(played, top) ==
    /\ viewer = "av"
    /\ ~no_audio
    /\ tpc = "get"
    /\ audio_queue # <<>>
    /\ LET audio_data == Head(audio_queue)
       IN  /\ audio_queue' = Tail(audio_queue)
           /\ IF decode_raises(audio_data)
              THEN /\ terr' = "ValueError"
                   /\ tpc' = top
                   /\ UNCHANGED dc_filter_state
              ELSE IF dc_filter_state = Unset
              THEN /\ terr' = "AttributeError"
                   /\ tpc' = top
                   /\ UNCHANGED dc_filter_state
              ELSE /\ dc_filter_state' = remove_dc_offset_state(dc_filter_state, audio_data)
                   /\ tpc' = IF played THEN "busy" ELSE top
                   /\ UNCHANGED terr
    /\ rx' = "none"
    /\ UNCHANGED <<viewer, no_audio, pc, err, packets_played, audio_count>>
    /\ UNCHANGED videoVars
    /\ UNCHANGED <<probe, sessionVars, hist>>

\* the same while running is never cleared: the head of the loop is passed at once
PlayGet(played) == PlayGetTo(played, "get")

\* _play_audio: the channel is no longer busy, or running has been cleared
PlayDoneTo(top) ==
    /\ viewer = "av"
    /\ ~no_audio
    /\ tpc = "busy"
    /\ IF packets_played = None
       THEN terr' = "AttributeError" /\ UNCHANGED packets_played
       ELSE packets_played' = packets_played + 1 /\ UNCHANGED terr
    /\ tpc' = top
    /\ rx' = "none"
    /\ UNCHANGED <<viewer, no_audio, pc, err, audio_queue, dc_filter_state, audio_count>>
    /\ UNCHANGED videoVars
    /\ UNCHANGED <<probe, sessionVars, hist>>

PlayDone == PlayDoneTo("get")

(***************************************************************************)
(* send_ultimate64_stream_command                                          *)
(***************************************************************************)
\* ord() of the characters a local address and a port are written with
ord(c) ==
    CASE c = "0" -> 48 [] c = "1" -> 49 [] c = "2" -> 50 [] c = "3" -> 51 [] c = "4" -> 52
      [] c = "5" -> 53 [] c = "6" -> 54 [] c = "7" -> 55 [] c = "8" -> 56 [] c = "9" -> 57
      [] c = "." -> 46 [] c = ":" -> 58 [] c = "a" -> 97

DigitChars == <<"0", "1", "2", "3", "4", "5", "6", "7", "8", "9">>

\* str(n) for n >= 0, as a sequence of characters
RECURSIVE str_int(_)
str_int(n) ==
    IF n < 10 THEN <<DigitChars[n + 1]>>
    ELSE str_int(n \div 10) \o <<DigitChars[(n % 10) + 1]>>

\* f"{local_ip}:{port}".encode('ascii'); local_ip is a sequence of ASCII characters
ip_port_bytes(local_ip, port) ==
    LET ip_port_str == local_ip \o <<":">> \o str_int(port)
    IN  [i \in 1..Len(ip_port_str) |-> ord(ip_port_str[i])]

\* x >> 8
shr8(x) == x \div 256

\* mutant: the parameter length without the two duration bytes
start_command_short_len(stream_id, local_ip, port) ==
    LET b == ip_port_bytes(local_ip, port)
        param_len == Len(b)
    IN  <<START_COMMAND + stream_id, COMMAND_MARKER, BitAnd(param_len, BYTE_MASK),
          BitAnd(shr8(param_len), BYTE_MASK), DURATION_FOREVER, DURATION_FOREVER>> \o b

\* the bytearray of the enable branch
start_command(stream_id, local_ip, port) ==
    LET b == ip_port_bytes(local_ip, port)
        param_len == 2 + Len(b)
    IN  <<START_COMMAND + stream_id, COMMAND_MARKER, BitAnd(param_len, BYTE_MASK),
          BitAnd(shr8(param_len), BYTE_MASK), DURATION_FOREVER, DURATION_FOREVER>> \o b

\* mutant: a stop command that starts with the start code
stop_command_start_code(stream_id) ==
    <<START_COMMAND + stream_id, COMMAND_MARKER, 0, 0>>

\* the bytearray of the other branch
stop_command(stream_id) == <<STOP_COMMAND + stream_id, COMMAND_MARKER, 0, 0>>

\* what the network does to one call: the connect succeeds, times out or is refused, and
\* sock.send takes the whole command, takes only a part of it, times out or fails
NetOutcomes ==
    { [connect |-> c, send |-> "none"] : c \in {"timeout", "refused"} } \cup
    { [connect |-> "ok", send |-> x] : x \in {"all", "first-byte", "all-but-one",
                                              "timeout", "error"} }

\* the value sock.send returns
sock_send(cmd, net) ==
    IF net.send = "all" THEN Len(cmd)
    ELSE IF net.send = "first-byte" THEN 1
    ELSE Len(cmd) - 1

\* mutant: the number of bytes sent is not looked at
sent_all_unchecked(sent, cmd) == TRUE

\* not (sent != len(cmd))
sent_all(sent, cmd) == sent = Len(cmd)

\* One call.  The result says what was returned (raised: an exception left the function
\* instead), how often connect and send were called, the bytes the peer was given, how
\* often sock.close() was called, and whether the socket is still open when the caller
\* goes on.  On the two except paths nothing closes the socket: it stays open until the
\* runtime reclaims the object, which has happened by then (reclaimed) or has not.
send_ultimate64_stream_command(stream_id, enable, local_ip, port, net, reclaimed) ==
    LET cmd == IF enable THEN start_command(stream_id, local_ip, port)
               ELSE stop_command(stream_id)
    IN  IF net.connect # "ok"
        THEN [result |-> FALSE, raised |-> FALSE, connects |-> 1, sends |-> 0,
              written |-> <<>>, closes |-> 0, open |-> ~reclaimed]
        ELSE IF net.send \in {"timeout", "error"}
        THEN [result |-> FALSE, raised |-> FALSE, connects |-> 1, sends |-> 1,
              written |-> <<>>, closes |-> 0, open |-> ~reclaimed]
        ELSE LET sent == sock_send(cmd, net)
             IN  [result |-> sent_all(sent, cmd), raised |-> FALSE, connects |-> 1,
                  sends |-> 1, written |-> SubSeq(cmd, 1, sent), closes |-> 1,
                  open |-> FALSE]

(***************************************************************************)
(* main(), c64_stream_viewer_av.py: from the start commands to the stop    *)
(* commands, with AudioPlayer.__init__, the head of the playback loop and  *)
(* AudioPlayer.stop                                                        *)
(***************************************************************************)
\* default of --local-ip
DefaultLocalIp == <<"1", "9", "2", ".", "1", "6", "8", ".", "6", "8", ".", "6", "2">>

\* what the network does to the calls main makes: refused, written whole, written in part
SessionNet ==
    { n \in NetOutcomes : n.connect = "refused" \/ n.send \in {"all", "all-but-one"} }

\* one call by main, as it is remembered in commands; s is the state of the UDP sockets
Call(stream_id, enable, port, net, s) ==
    [stream_id |-> stream_id, enable |-> enable, socks |-> s,
     result |-> send_ultimate64_stream_command(stream_id, enable, DefaultLocalIp, port,
                                               net, TRUE).result]

\* "Start streams if Ultimate64 host is provided"
StartStreams ==
    /\ pc = "start"
    /\ IF ultimate_host # "" /\ ~no_auto_stream
       THEN \E nv, na \in SessionNet :
              LET v == Call(0, TRUE, VIDEO_PORT, nv, socks)
                  a == Call(1, TRUE, AUDIO_PORT, na, socks)
                  video_started == v.result
                  audio_started == IF ~no_audio THEN a.result ELSE FALSE
              IN  /\ commands' = IF ~no_audio THEN <<v, a>> ELSE <<v>>
                  /\ streams_started' = (video_started \/ audio_started)
       ELSE UNCHANGED <<commands, streams_started>>
    /\ pc' = "sockets"
    /\ rx' = "none"
    /\ UNCHANGED <<viewer, no_audio, err, probe, hist, ultimate_host, no_auto_stream, socks,
                   running, audio_muted>>
    /\ UNCHANGED videoVars
    /\ UNCHANGED audioVars

\* "Create UDP sockets": socket() and bind() succeed, or one of them raises and main
\* returns 1
CreateSockets(ok) ==
    /\ pc = "sockets"
    /\ socks' = IF ok THEN "open" ELSE "failed"
    /\ pc' = IF ok THEN "player" ELSE "returned"
    /\ rx' = "none"
    /\ UNCHANGED <<viewer, no_audio, err, probe, hist, ultimate_host, no_auto_stream,
                   streams_started, commands, running, audio_muted>>
    /\ UNCHANGED videoVars
    /\ UNCHANGED audioVars

\* --no-audio: audio_player stays None
NoPlayer ==
    /\ pc = "player"
    /\ no_audio
    /\ pc' = "recv"
    /\ rx' = "none"
    /\ UNCHANGED <<viewer, no_audio, err, probe, hist>>
    /\ UNCHANGED sessionVars
    /\ UNCHANGED videoVars
    /\ UNCHANGED audioVars

\* mutant: a queue that holds a block when it is created
queue_Queue_preloaded == <<[nbytes |-> AUDIO_PAYLOAD_BYTES, pcm |-> "dc"]>>

\* queue.Queue(maxsize=20)
queue_Queue == <<>>

\* AudioPlayer.__init__ up to and including self.thread.start()
Init_172 ==
    /\ pc = "player"
    /\ ~no_audio
    /\ audio_queue' = queue_Queue
    /\ running' = TRUE
    /\ tpc' = "while"
    /\ pc' = "init173"
    /\ rx' = "none"
    /\ UNCHANGED <<viewer, no_audio, err, probe, hist, ultimate_host, no_auto_stream,
                   streams_started, commands, socks, audio_muted>>
    /\ UNCHANGED <<dc_filter_state, packets_played, audio_count, terr>>
    /\ UNCHANGED videoVars

\* self.packets_played = 0
Init_173 ==
    /\ pc = "init173"
    /\ packets_played' = 0
    /\ pc' = "init176"
    /\ rx' = "none"
    /\ UNCHANGED <<viewer, no_audio, err, probe, hist>>
    /\ UNCHANGED sessionVars
    /\ UNCHANGED <<audio_queue, dc_filter_state, audio_count, tpc, terr>>
    /\ UNCHANGED videoVars

\* self.dc_filter_state = np.array([0.0, 0.0]); the constructor returns, audio_muted = False
Init_176 ==
    /\ pc = "init176"
    /\ dc_filter_state' = <<0, 0>>
    /\ audio_muted' = FALSE
    /\ pc' = "recv"
    /\ rx' = "none"
    /\ UNCHANGED <<viewer, no_audio, err, probe, hist, ultimate_host, no_auto_stream,
                   streams_started, commands, socks, running>>
    /\ UNCHANGED <<audio_queue, packets_played, audio_count, tpc, terr>>
    /\ UNCHANGED videoVars

\* mutant: while True
loop_goes_on_forever(r) == TRUE

\* the test of "while self.running"
loop_goes_on(r) == r

\* _play_audio: the head of the loop
ThreadWhile ==
    /\ tpc = "while"
    /\ tpc' = IF loop_goes_on(running) THEN "get" ELSE "exited"
    /\ rx' = "none"
    /\ UNCHANGED <<viewer, no_audio, pc, err, probe, hist>>
    /\ UNCHANGED sessionVars
    /\ UNCHANGED <<audio_queue, dc_filter_state, packets_played, audio_count, terr>>
    /\ UNCHANGED videoVars

\* _play_audio: audio_queue.get times out, queue.Empty, continue
ThreadEmpty ==
    /\ tpc = "get"
    /\ audio_queue = <<>>
    /\ tpc' = "while"
    /\ rx' = "none"
    /\ UNCHANGED <<viewer, no_audio, pc, err, probe, hist>>
    /\ UNCHANGED sessionVars
    /\ UNCHANGED <<audio_queue, dc_filter_state, packets_played, audio_count, terr>>
    /\ UNCHANGED videoVars

\* the M key
KeyM ==
    /\ pc = "recv"
    /\ ~no_audio
    /\ audio_muted' = ~audio_muted
    /\ rx' = "none"
    /\ UNCHANGED <<viewer, no_audio, pc, err, probe, hist, ultimate_host, no_auto_stream,
                   streams_started, commands, socks, running>>
    /\ UNCHANGED videoVars
    /\ UNCHANGED audioVars

\* the loop is left: QUIT, ESC or Q, KeyboardInterrupt, or an exception on its way out
Quit ==
    /\ pc \in {"recv", "aborted"}
    /\ socks = "open"
    /\ pc' = "finally"
    /\ rx' = "none"
    /\ UNCHANGED <<viewer, no_audio, err, probe, hist>>
    /\ UNCHANGED sessionVars
    /\ UNCHANGED videoVars
    /\ UNCHANGED audioVars

\* audio_player.stop(): self.running = False
StopPlayer ==
    /\ pc = "finally"
    /\ ~no_audio
    /\ running' = FALSE
    /\ pc' = "join"
    /\ rx' = "none"
    /\ UNCHANGED <<viewer, no_audio, err, probe, hist, ultimate_host, no_auto_stream,
                   streams_started, commands, socks, audio_muted>>
    /\ UNCHANGED videoVars
    /\ UNCHANGED audioVars

\* the rest of the finally block: join returns (the thread has ended, or a second has
\* passed), the UDP sockets are closed, "Stop streams if we started them"
Cleanup ==
    /\ pc = "join" \/ (pc = "finally" /\ no_audio)
    /\ socks' = "closed"
    /\ IF ultimate_host # "" /\ ~no_auto_stream /\ streams_started
       THEN \E nv, na \in SessionNet :
              LET v == Call(0, FALSE, VIDEO_PORT, nv, "closed")
                  a == Call(1, FALSE, AUDIO_PORT, na, "closed")
              IN  commands' = commands \o (IF ~no_audio THEN <<v, a>> ELSE <<v>>)
       ELSE UNCHANGED commands
    /\ pc' = IF err = "none" THEN "exit" ELSE "aborted"
    /\ rx' = "none"
    /\ UNCHANGED <<viewer, no_audio, err, probe, hist, ultimate_host, no_auto_stream,
                   streams_started, running, audio_muted>>
    /\ UNCHANGED videoVars
    /\ UNCHANGED audioVars

(***************************************************************************)
(* Specifications                                                          *)
(***************************************************************************)
Start ==
    /\ viewer \in {"cv", "wayland", "av"}
    /\ no_audio \in (IF viewer = "av" THEN BOOLEAN ELSE {TRUE})
    /\ pc = "recv"
    /\ err = "none"
    /\ assembler = NewAssembler
    /\ frame = NoFrame
    /\ frame_count = 0
    /\ audio_queue = <<>>
    /\ dc_filter_state = <<0, 0>>
    /\ packets_played = 0
    /\ audio_count = 0
    /\ tpc = "get"
    /\ terr = "none"
    /\ sinceLines = {}
    /\ sinceLast = None
    /\ callFrame = None
    /\ win = NoWin
    /\ rx = "none"
    /\ lastCall = NoCall
    /\ ultimate_host = ""
    /\ no_auto_stream = FALSE
    /\ streams_started = FALSE
    /\ commands = <<>>
    /\ socks = "open"
    /\ running = ~no_audio
    /\ audio_muted = FALSE

\* a viewer starts; no function is exercised on its own
Init == Start /\ probe = NoProbe /\ hist = NoHist

\* With audio enabled the A/V viewer's video stream is drawn from a smaller set, which
\* keeps the product of the video and audio pipelines small.
AvVideoDatagrams ==
    BadVideo \cup
    { d \in GoodVideo : d.payload.frame = 1 /\ d.payload.id = "a"
                         /\ d.payload.line \in {0, 4, LINE_MASK} }

VideoInputs == IF no_audio THEN VideoDatagrams ELSE AvVideoDatagrams

Next ==
    \/ frame_count < MaxFrameCount /\ \E d \in VideoInputs : RecvVideo_cv(d, FALSE)
    \/ Check_cv
    \/ frame_count < MaxFrameCount /\ \E d \in VideoInputs : RecvVideo_wayland(d, FALSE)
    \/ Check_wayland
    \/ frame_count < MaxFrameCount /\ \E d \in VideoInputs : RecvVideo_av(d, FALSE)
    \/ Check_av
    \/ audio_count < MaxAudio /\ \E d \in AudioDatagrams : RecvAudio_av(d)
    \/ \E played \in BOOLEAN : PlayGet(played)
    \/ PlayDone

Spec == Init /\ [][Next]_vars

(***************************************************************************)
(* Header decoding on its own: one valid video packet with any raw line    *)
(* field goes through the running viewer's parse.                          *)
(***************************************************************************)
\* raw 16-bit line fields: around 0, the PAL height, bit 15 and the top of the range
RawLines ==
    (0..7) \cup (268..275) \cup (32760..32775) \cup (33036..33043) \cup (65528..65535)
    \cup {256, 1024, 4096, 16384, 16385, 49152, 49153}

\* the running viewer's parse
parse(data) ==
    IF viewer = "cv" THEN parse_cv(data)
    ELSE IF viewer = "wayland" THEN parse_wayland(data)
    ELSE parse_av(data)

InitHeader ==
    /\ Start
    /\ hist = NoHist
    /\ probe \in { [fn |-> "header", v |-> v, done |-> FALSE, out |-> Rejected]
                   : v \in RawLines }

DecodeHeader ==
    /\ probe.fn = "header"
    /\ ~probe.done
    /\ LET d == WireVideo(VIDEO_PACKET_SIZE, 0, 1, probe.v,
                          PIXELS_PER_LINE, LINES_PER_PACKET, BITS_PER_PIXEL, "a")
       IN  probe' = [probe EXCEPT !.done = TRUE,
                                  !.out = parse(recvfrom(d, VIDEO_PACKET_SIZE + RECV_SLACK))]
    /\ UNCHANGED <<viewer, no_audio, pc, err, rx>>
    /\ UNCHANGED videoVars
    /\ UNCHANGED <<sessionVars, hist>>
    /\ UNCHANGED audioVars

HeaderSpec == InitHeader /\ [][DecodeHeader]_vars

(***************************************************************************)
(* The DC filter on its own: blocks of stereo pairs go through             *)
(* _remove_dc_offset one after the other.                                  *)
(***************************************************************************)
\* the right sample that goes with a left sample
Mirror(l) == IF l = INT16_MIN THEN INT16_MAX ELSE IF l = INT16_MAX THEN INT16_MIN ELSE -l

\* blocks: a background level with one sample set apart, at any position
Blocks ==
    { [i \in 1..BlockPairs |-> LET l == IF i = p THEN v ELSE b IN <<l, Mirror(l)>>]
        : b \in {0, 1000, INT16_MIN}, v \in {0, 1000, INT16_MIN, INT16_MAX},
          p \in 1..BlockPairs }

\* the left channel so far: "silent" (zeros only), "rung" (one sample of 1000, zeros
\* otherwise) or "other"
RECURSIVE ImpStep(_, _, _)
ImpStep(imp, stereo, i) ==
    IF i > Len(stereo) THEN imp
    ELSE ImpStep(IF stereo[i][1] = 0 THEN imp
                 ELSE IF stereo[i][1] = 1000 /\ imp = "silent" THEN "rung"
                 ELSE "other",
                 stereo, i + 1)

InitDc ==
    /\ Start
    /\ hist = NoHist
    /\ viewer = "av"
    /\ ~no_audio
    /\ probe = [fn |-> "dc", blocks |-> 0, x |-> <<>>, filtered |-> <<>>, out |-> <<>>,
                sub |-> <<>>, prevx |-> <<0, 0>>, prevy |-> <<0, 0>>,
                imp |-> "silent", was |-> "silent"]

\* filtered_array = self._remove_dc_offset(audio_array)
FilterBlock(stereo) ==
    /\ probe.fn = "dc"
    /\ probe.blocks < MaxBlocks
    /\ LET r == remove_dc_offset(dc_filter_state, stereo)
       IN  /\ dc_filter_state' = r.state
           /\ probe' = [fn |-> "dc", blocks |-> probe.blocks + 1, x |-> stereo,
                        filtered |-> r.filtered, out |-> r.out, sub |-> r.sub,
                        prevx |-> IF probe.blocks = 0 THEN <<0, 0>>
                                  ELSE probe.x[Len(probe.x)],
                        prevy |-> IF probe.blocks = 0 THEN <<0, 0>>
                                  ELSE probe.filtered[Len(probe.filtered)],
                        imp |-> ImpStep(probe.imp, stereo, 1), was |-> probe.imp]
    /\ UNCHANGED <<viewer, no_audio, pc, err, rx>>
    /\ UNCHANGED videoVars
    /\ UNCHANGED <<sessionVars, hist>>
    /\ UNCHANGED <<audio_queue, packets_played, audio_count, tpc, terr>>

NextDc == \E stereo \in Blocks : FilterBlock(stereo)

DcSpec == InitDc /\ [][NextDc]_vars

(***************************************************************************)
(* The A/V viewer's audio path alone, with a stream long enough to fill    *)
(* the queue.  Consecutive blocks of the stream differ, so the order of    *)
(* the queue is visible.                                                   *)
(***************************************************************************)
\* the content of the n-th valid datagram of the stream (n from 0)
StreamPcm(n) == IF n % 2 = 0 THEN "dc" ELSE "silence"

QueueDatagrams ==
    { WireAudio(AUDIO_PACKET_SIZE, StreamPcm(audio_count)),
      WireAudio(AUDIO_PACKET_SIZE - 1, "dc") }

InitQueue == Init /\ viewer = "av" /\ ~no_audio

NextQueue ==
    \/ audio_count < MaxQueueAudio /\ \E d \in QueueDatagrams : RecvAudio_av(d)
    \/ PlayGet(TRUE)
    \/ PlayDone

QueueSpec == InitQueue /\ [][NextQueue]_vars

\* The basic viewer alone, with an observation window opened at any accepted packet.
InitProgress == Init /\ viewer = "cv"

\* Its stream: well-formed packets at the aligned lines 0, 4, 8 and two malformed datagrams.
ProgressDatagrams ==
    { d \in GoodVideo : d.payload.line \in LinesUpTo(2 * LINES_PER_PACKET) } \cup
    { d \in BadVideo : d.len = VIDEO_PACKET_SIZE - 1 \/ d.sent.bits_per_pixel = 2 * BITS_PER_PIXEL }

NextProgress ==
    \/ frame_count < MaxWindowFrames
       /\ \E d \in ProgressDatagrams, mark \in BOOLEAN : RecvVideo_cv(d, mark)
    \/ Check_cv

ProgressSpec == InitProgress /\ [][NextProgress]_vars

(***************************************************************************)
(* send_ultimate64_stream_command on its own: one call with any stream,    *)
(* direction, address, port and behaviour of the network.  duration is the *)
(* session length the caller has in mind; the function has no parameter    *)
(* for it.                                                                 *)
(***************************************************************************)
\* a name longer than 255 characters
LongNameLen == 260

LocalIps ==
    { <<"1", "0", ".", "0", ".", "0", ".", "5">>,
      <<"1", "9", "2", ".", "1", "6", "8", ".", "6", "8", ".", "6", "2">>,
      [i \in 1..LongNameLen |-> "a"] }

Ports == {80, 11000, 11001}

Durations == {0, 1, 300}

NoResult == [result |-> FALSE, raised |-> FALSE, connects |-> 0, sends |-> 0,
             written |-> <<>>, closes |-> 0, open |-> FALSE]

InitCommand ==
    /\ Start
    /\ hist = NoHist
    /\ viewer = "av"
    /\ ~no_audio
    /\ probe \in { [fn |-> "command", stream_id |-> sid, enable |-> en, local_ip |-> ip,
                    port |-> po, duration |-> du, net |-> net, reclaimed |-> re,
                    done |-> FALSE, out |-> NoResult]
                   : sid \in {0, 1}, en \in BOOLEAN, ip \in LocalIps, po \in Ports,
                     du \in Durations, net \in NetOutcomes, re \in BOOLEAN }

SendCommand ==
    /\ probe.fn = "command"
    /\ ~probe.done
    /\ probe' = [probe EXCEPT
                   !.done = TRUE,
                   !.out = send_ultimate64_stream_command(
                               probe.stream_id, probe.enable, probe.local_ip, probe.port,
                               probe.net, probe.reclaimed)]
    /\ UNCHANGED <<viewer, no_audio, pc, err, rx>>
    /\ UNCHANGED videoVars
    /\ UNCHANGED audioVars
    /\ UNCHANGED <<sessionVars, hist>>

CommandSpec == InitCommand /\ [][SendCommand]_vars

(***************************************************************************)
(* A viewer whose stream is remembered: which packets were accepted and    *)
(* which frame numbers were delivered.                                     *)
(***************************************************************************)
InitDelivery ==
    /\ Start
    /\ no_audio
    /\ probe = NoProbe
    /\ hist = [NoHist EXCEPT !.on = TRUE]

\* the stream: well-formed packets at the aligned lines 0, 4, 8, flagged or not; every
\* (frame number, packet index) pair is sent once, and the stream ends after MaxArrivals
\* packets
DeliveryDatagrams ==
    { d \in GoodVideo :
        /\ d.payload.line \in LinesUpTo(2 * LINES_PER_PACKET)
        /\ ~\E p \in hist.arrived : /\ p.frame = d.payload.frame
                                    /\ p.idx = d.payload.line \div LINES_PER_PACKET }

MoreArrivals == Cardinality(hist.arrived) < MaxArrivals

NextDelivery ==
    \/ MoreArrivals /\ \E d \in DeliveryDatagrams : RecvVideo_cv(d, FALSE)
    \/ Check_cv
    \/ MoreArrivals /\ \E d \in DeliveryDatagrams : RecvVideo_wayland(d, FALSE)
    \/ Check_wayland
    \/ MoreArrivals /\ \E d \in DeliveryDatagrams : RecvVideo_av(d, FALSE)
    \/ Check_av

DeliverySpec == InitDelivery /\ [][NextDelivery]_vars

(***************************************************************************)
(* A whole run of the A/V viewer                                           *)
(***************************************************************************)
InitSession ==
    /\ viewer = "av"
    /\ no_audio \in BOOLEAN
    /\ pc = "start"
    /\ err = "none"
    /\ assembler = NewAssembler
    /\ frame = NoFrame
    /\ frame_count = 0
    /\ audio_queue = <<>>
    /\ dc_filter_state = Unset
    /\ packets_played = None
    /\ audio_count = 0
    /\ tpc = "unstarted"
    /\ terr = "none"
    /\ sinceLines = {}
    /\ sinceLast = None
    /\ callFrame = None
    /\ win = NoWin
    /\ rx = "none"
    /\ lastCall = NoCall
    /\ probe = NoProbe
    /\ ultimate_host \in {"", "u64"}
    /\ no_auto_stream \in BOOLEAN
    /\ streams_started = FALSE
    /\ commands = <<>>
    /\ socks = "none"
    /\ running = FALSE
    /\ audio_muted = FALSE
    /\ hist = NoHist

\* its video stream: frame 1 at lines 0 and 4, flagged or not, and a short datagram
SessionVideo ==
    { d \in GoodVideo : d.payload.frame = 1 /\ d.payload.line \in LinesUpTo(LINES_PER_PACKET) }
    \cup { d \in BadVideo : d.len = VIDEO_PACKET_SIZE - 1 }

PlaybackThread ==
    \/ ThreadWhile
    \/ ThreadEmpty
    \/ \E played \in BOOLEAN : PlayGetTo(played, "while")
    \/ PlayDoneTo("while")

NextSession ==
    \/ StartStreams
    \/ \E ok \in BOOLEAN : CreateSockets(ok)
    \/ NoPlayer
    \/ Init_172
    \/ Init_173
    \/ Init_176
    \/ KeyM
    \/ frame_count < MaxFrameCount /\ \E d \in SessionVideo : RecvVideo_av(d, FALSE)
    \/ Check_av
    \/ audio_count < MaxAudio /\ \E d \in QueueDatagrams : RecvAudio_av(d)
    \/ Quit
    \/ StopPlayer
    \/ Cleanup
    \/ PlaybackThread

SessionSpec == InitSession /\ [][NextSession]_vars

\* The playback thread is scheduled again and again; get() returns or times out, and a
\* sound ends or the wait for it is given up.
FairSessionSpec == SessionSpec /\ WF_vars(PlaybackThread)

(***************************************************************************)
(* Claims                                                                  *)
(***************************************************************************)
PacketIndex(l) == l \div LINES_PER_PACKET

\* is_complete() of the running viewer's copy
Complete ==
    IF viewer = "cv" THEN is_complete(assembler)
    ELSE IF viewer = "wayland" THEN is_complete_wayland(assembler)
    ELSE is_complete_av(assembler)

\* an add_packet call whose frame_num differs from the tracked one (or the first call)
SwitchStep == pc = "recv" /\ pc' = "check" /\ callFrame' # callFrame

\* C1: an add_packet call with a frame number other than the tracked one (or the first
\* call on the object) leaves exactly the new packet in the assembler, with the expected
\* count cleared unless that packet is flagged last; hence the stored indices and the
\* expected count, and with them is_complete(), are a function of the calls made since
\* the latest such switch.
C1_FrameSwitchDiscard ==
    /\ [](/\ Keys(assembler.packets) = { PacketIndex(l) : l \in sinceLines }
          /\ assembler.expected_packets =
                IF sinceLast = None THEN 0 ELSE PacketIndex(sinceLast) + 1)
    /\ [][SwitchStep =>
            /\ Len(assembler'.packets) = 1
            /\ assembler'.packets[1] = [idx        |-> PacketIndex(lastCall'.line_num),
                                        line_num   |-> lastCall'.line_num,
                                        pixel_data |-> lastCall'.pixel_data]
            /\ assembler'.current_frame_num = lastCall'.frame_num
            /\ assembler'.expected_packets =
                  IF lastCall'.is_last THEN PacketIndex(lastCall'.line_num) + 1 ELSE 0
         ]_vars

\* C1 witness: one stored packet and no expected count, while height still carries the
\* value a last-flagged packet of the frame before the switch had set
C1_Witness ==
    /\ viewer = "cv"
    /\ pc = "check"
    /\ Len(assembler.packets) = 1
    /\ assembler.expected_packets = 0
    /\ assembler.height # PAL_HEIGHT

\* C2: every stored packet was cut from the frame the assembler is tracking, and every
\* row of a delivered frame was decoded from a packet of the delivered frame number.
C2_NoCrossFrameMerge ==
    /\ \A i \in 1..Len(assembler.packets) :
          assembler.packets[i].pixel_data.frame = assembler.current_frame_num
    /\ frame # NoFrame =>
          \A r \in DOMAIN frame.rows : frame.rows[r].pixel_data.frame = frame.num

\* C2 witness: two packets of frame 2 stored after a switch away from a frame whose
\* last-flagged packet had set height to 8
C2_Witness ==
    /\ viewer = "wayland"
    /\ pc = "check"
    /\ assembler.current_frame_num = 2
    /\ Len(assembler.packets) = 2
    /\ assembler.expected_packets = 0
    /\ assembler.height = 8

\* C3: in every reachable assembler state each of the three copies of is_complete()
\* is true iff expected_packets > 0 and the number of distinct stored packet indices is
\* at least expected_packets.
C3_IsCompleteIff ==
    LET want == /\ assembler.expected_packets > 0
                /\ Cardinality(Keys(assembler.packets)) >= assembler.expected_packets
    IN  /\ is_complete(assembler) = want
        /\ is_complete_av(assembler) = want
        /\ is_complete_wayland(assembler) = want

\* C3 witness: a complete assembler that holds more packets than expected
C3_Witness ==
    /\ viewer = "cv"
    /\ pc = "check"
    /\ is_complete(assembler)
    /\ Len(assembler.packets) > assembler.expected_packets

\* C4: for the packets of one frame (aligned lines, none above the line L of the
\* last-flagged packet), once the last-flagged packet is stored expected_packets is
\* L/4 + 1 and height is L + 4, and is_complete() is true exactly when all of lines
\* 0, 4, ..., L have been stored; before any last-flagged packet it is false.
C4_GeometryFromLastFlag ==
    /\ sinceLast = None => ~Complete
    /\ (/\ sinceLast # None
        /\ \A l \in sinceLines : l % LINES_PER_PACKET = 0 /\ l <= sinceLast)
       => /\ assembler.expected_packets = PacketIndex(sinceLast) + 1
          /\ assembler.height = sinceLast + LINES_PER_PACKET
          /\ Complete <=> (sinceLines = LinesUpTo(sinceLast))

\* C4 witness: lines 0, 4, 8 of a frame all stored, the last-flagged line 8 first
C4_Witness ==
    /\ viewer = "cv"
    /\ pc = "check"
    /\ sinceLines = {0, 4, 8}
    /\ sinceLast = 8
    /\ assembler.packets[1].line_num = 8
    /\ assembler.expected_packets = 3
    /\ assembler.height = 12
    /\ is_complete(assembler)

\* C5: while no last-flagged packet has been stored since the latest frame switch,
\* is_complete() is false however many packets are stored, and every stored index stays
\* stored unless the step is an add_packet call with another frame number.
C5_NoLastNoCompletion ==
    /\ [](sinceLast = None =>
            /\ ~is_complete(assembler)
            /\ ~is_complete_wayland(assembler)
            /\ ~is_complete_av(assembler))
    /\ [][sinceLast = None =>
            \/ Keys(assembler.packets) \subseteq Keys(assembler'.packets)
            \/ SwitchStep
         ]_vars

\* C5 witness: three packets stored, none flagged last, and the completeness check has
\* left them in place
C5_Witness ==
    /\ viewer = "wayland"
    /\ pc = "recv"
    /\ sinceLast = None
    /\ Len(assembler.packets) = 3

\* the add_packet calls the receive loop can make
Calls == { parse_av(recvfrom(d, VIDEO_PACKET_SIZE + RECV_SLACK)) : d \in GoodVideo }

Entry(c) == [idx |-> PacketIndex(c.line_num), line_num |-> c.line_num,
             pixel_data |-> c.pixel_data]

\* C6: from every reachable assembler state, a second add_packet call with the same
\* arguments changes nothing (stored packets, expected_packets, height, is_complete());
\* a call for an index already stored replaces its entry and leaves the number of
\* stored indices as it was; the entry of the call that has just returned is stored.
C6_AddPacketIdempotent ==
    /\ \A c \in Calls :
         LET once  == add_packet_av(assembler, c.frame_num, c.line_num,
                                    c.lines_per_packet, c.pixel_data, c.is_last)
             twice == add_packet_av(once, c.frame_num, c.line_num,
                                    c.lines_per_packet, c.pixel_data, c.is_last)
         IN  /\ twice = once
             /\ is_complete_av(twice) = is_complete_av(once)
             /\ (/\ c.frame_num = assembler.current_frame_num
                 /\ PacketIndex(c.line_num) \in Keys(assembler.packets))
                => /\ Len(once.packets) = Len(assembler.packets)
                   /\ Keys(once.packets) = Keys(assembler.packets)
                   /\ \E i \in 1..Len(once.packets) : once.packets[i] = Entry(c)
    /\ pc = "check" =>
         \E i \in 1..Len(assembler.packets) : assembler.packets[i] = Entry(lastCall)

\* C6 witness: lines 0 and 2 (both index 0, different payloads) and one more line have
\* been stored, line 2 latest, and two indices are held
C6_Witness ==
    /\ viewer = "av"
    /\ pc = "check"
    /\ {0, 2} \subseteq sinceLines
    /\ Cardinality(sinceLines) = 3
    /\ lastCall.line_num = 2
    /\ Len(assembler.packets) = 2

\* the loop has just delivered the frame of window w: its number, a height of L + 4 and
\* every row 0 .. L + 3 written from a packet of the window's frame
Delivered(w) ==
    /\ frame # NoFrame
    /\ frame.num = w.frame
    /\ \E L \in { x[1] : x \in w.got } :
          /\ \A x \in w.got : x[1] <= L
          /\ frame.height = L + LINES_PER_PACKET
          /\ DOMAIN frame.rows = 0..(L + LINES_PER_PACKET - 1)
    /\ \A r \in DOMAIN frame.rows : frame.rows[r].pixel_data.frame = w.frame

\* C7 as stated: from any assembler state, once every packet of a frame M (lines 0, 4,
\* ..., L, each once, only line L flagged last) has arrived with no other frame number
\* in between, the loop has delivered frame M when the last of them is processed.
C7_AnyStateProgress ==
    (pc = "recv" /\ WinComplete(win)) => Delivered(win)

\* C7 amended: the same, starting from an assembler that is fresh or tracks a frame
\* number other than M.
C7_SelfHealingProgress ==
    (pc = "recv" /\ WinComplete(win) /\ win.pre # win.frame) => Delivered(win)

\* a frame of at least two packets delivered over an abandoned partial frame of another
\* number
C7_Witness ==
    /\ pc = "recv"
    /\ WinComplete(win)
    /\ win.pre \notin {None, win.frame}
    /\ Cardinality(win.got) >= 2
    /\ Delivered(win)

\* C8: whatever video and audio datagrams arrive, neither the receive loop nor the
\* playback thread reaches an error state: no exception leaves the header parse,
\* add_packet, is_complete, the frame assembly, the audio slicing or the decoding and DC
\* filtering of a queued block.
C8_NoAbort ==
    /\ pc # "aborted"
    /\ err = "none"
    /\ terr = "none"

\* the A/V viewer about to assemble a complete frame that holds a packet index at or
\* beyond expected_packets, after an audio block has been decoded, filtered and played
C8_Witness ==
    /\ viewer = "av"
    /\ ~no_audio
    /\ pc = "check"
    /\ is_complete_av(assembler)
    /\ \E i \in 1..Len(assembler.packets) :
          assembler.packets[i].idx >= assembler.expected_packets
    /\ packets_played >= 1
    /\ C8_NoAbort

\* C9: in each of the three viewers a video datagram is handed to add_packet exactly
\* when it is 780 bytes long and was sent with pixels-per-line 384, lines-per-packet 4
\* and bits-per-pixel 4; any other datagram leaves the loop where it was, with no call.
C9_AcceptIff ==
    /\ rx = "video-ok" =>
          /\ pc = "check"
          /\ lastCall # NoCall
          /\ lastCall.frame_num = lastCall.pixel_data.frame
          /\ lastCall.line_num = lastCall.pixel_data.line
    /\ rx = "video-bad" => (pc = "recv" /\ lastCall = NoCall)

\* the Wayland viewer has just handed a well-formed, last-flagged packet to add_packet
C9_Witness ==
    /\ viewer = "wayland"
    /\ rx = "video-ok"
    /\ pc = "check"
    /\ lastCall.is_last
    /\ lastCall.line_num = 2 * LINES_PER_PACKET

\* C10: a step that takes a malformed video datagram leaves the assembler, the delivered
\* frame and the frame count as they were; a step that takes an audio datagram whose
\* length is not 770 leaves the audio queue and the DC filter state as they were.
C10_MalformedChangesNothing ==
    [][ /\ rx' = "video-bad" => UNCHANGED <<assembler, frame, frame_count>>
        /\ rx' = "audio-bad" => UNCHANGED <<audio_queue, dc_filter_state>> ]_vars

\* the A/V viewer has just discarded a malformed video datagram while a partial frame
\* with a known packet count is in the assembler and audio is queued
C10_Witness ==
    /\ viewer = "av"
    /\ ~no_audio
    /\ rx = "video-bad"
    /\ assembler.packets # <<>>
    /\ assembler.expected_packets > 0
    /\ audio_queue # <<>>
    /\ dc_filter_state # <<0, 0>>

\* C11: for a valid video packet with raw line field v, the decoded is_last is true
\* exactly when bit 15 of v is set, and the line number handed on is v without bit 15,
\* so the packet index is below 8192 whatever the flag.
C11_LastFlagMasked ==
    (probe.fn = "header" /\ probe.done) =>
        /\ probe.out.kind = "accept"
        /\ probe.out.is_last = (probe.v >= LAST_FLAG)
        /\ probe.out.line_num = (IF probe.v >= LAST_FLAG THEN probe.v - LAST_FLAG
                                                         ELSE probe.v)
        /\ probe.out.line_num \div probe.out.lines_per_packet
             = (probe.v % LAST_FLAG) \div LINES_PER_PACKET

\* the A/V viewer has decoded a flagged, unaligned line field
C11_Witness ==
    /\ probe.fn = "header"
    /\ probe.done
    /\ viewer = "av"
    /\ probe.v = LAST_FLAG + PAL_HEIGHT - 1
    /\ probe.out.is_last
    /\ probe.out.line_num = PAL_HEIGHT - 1

\* what get_frame / get_frame_surface of the running viewer returns for the assembler
Assembled ==
    IF viewer = "cv" THEN get_frame(assembler)
    ELSE IF viewer = "wayland" THEN get_frame_surface_wayland(assembler)
    ELSE get_frame_surface_av(assembler)

\* the sub-line offsets o of a packet starting at line l with l + o below the height
Offsets(l, height) == { o \in 0..(LINES_PER_PACKET - 1) : l + o < height }

\* every byte value decodes to its low nibble first and its high nibble second
DecodeTable ==
    \A b \in 0..255 : decode_byte(b) = << b % 16, (b \div 16) % 16 >>

\* byte positions of a sub-line looked at in an assembled frame: both ends and the middle
ByteIdxs == {0, 1, 95, 96, 190, 191}

\* row l + o of the frame shows sub-line o of stored packet i: each byte's low nibble
\* at the even column, its high nibble at the odd column
ShowsPacket(fr, a, i, o) ==
    LET row == a.packets[i].line_num + o
    IN  /\ row \in DOMAIN fr.rows
        /\ ByteIdxs \subseteq 0..(BYTES_PER_LINE - 1)
        /\ \A k \in ByteIdxs :
              LET b == PayloadByte(a.packets[i].pixel_data, o * BYTES_PER_LINE + k)
              IN  /\ Pixel(fr, row, 2 * k) = b % 16
                  /\ Pixel(fr, row, 2 * k + 1) = (b \div 16) % 16

\* C12 as stated: in an assembled frame every stored packet shows at its rows, for every
\* sub-line below the height and every byte of the sub-line.
C12_EveryPacketShows ==
    (pc = "check" /\ Complete) =>
        \A i \in 1..Len(assembler.packets) :
            \A o \in Offsets(assembler.packets[i].line_num, assembler.height) :
                ShowsPacket(Assembled, assembler, i, o)

\* C12 amended: the same for every row that no packet stored later also covers; a frame
\* whose packets start at lines 0, 4, ..., L has every pixel of every row decoded from
\* its own packet.
C12_PixelDecode ==
    (pc = "check" /\ Complete) =>
      /\ DecodeTable
      /\ \A i \in 1..Len(assembler.packets) :
            \A o \in Offsets(assembler.packets[i].line_num, assembler.height) :
                (\A j \in (i + 1)..Len(assembler.packets) :
                    \A o2 \in 0..(LINES_PER_PACKET - 1) :
                        assembler.packets[j].line_num + o2
                            # assembler.packets[i].line_num + o)
                => ShowsPacket(Assembled, assembler, i, o)

\* a complete three-packet frame with packets at lines 0, 4 and 8, stored out of order
C12_Witness ==
    /\ pc = "check"
    /\ Complete
    /\ Len(assembler.packets) = 3
    /\ assembler.packets[1].line_num = 2 * LINES_PER_PACKET
    /\ { assembler.packets[i].line_num : i \in 1..3 } = LinesUpTo(2 * LINES_PER_PACKET)
    /\ DOMAIN Assembled.rows = 0..(3 * LINES_PER_PACKET - 1)

\* C13: assembling a complete frame writes only rows below the height and columns below
\* 384; each written row comes from a stored packet that covers it, at the sub-line
\* that falls on it, and a row that no stored packet covers is left as the buffer was
\* created.
C13_WritesInsideFrame ==
    (pc = "check" /\ Complete) =>
        LET fr == Assembled
        IN  /\ fr.height = assembler.height
            /\ WrittenColumns \subseteq 0..(PIXELS_PER_LINE - 1)
            /\ \A r \in DOMAIN fr.rows :
                  /\ 0 <= r /\ r < fr.height
                  /\ \E i \in 1..Len(assembler.packets) :
                       /\ fr.rows[r].pixel_data = assembler.packets[i].pixel_data
                       /\ fr.rows[r].line_offset = r - assembler.packets[i].line_num
                       /\ fr.rows[r].line_offset \in 0..(LINES_PER_PACKET - 1)
            /\ \A r \in 0..(fr.height - 1) :
                  (\A i \in 1..Len(assembler.packets) :
                      r < assembler.packets[i].line_num
                      \/ r >= assembler.packets[i].line_num + LINES_PER_PACKET)
                  => r \notin DOMAIN fr.rows

\* a complete frame that holds a packet starting beyond the height and has a row that
\* no packet covers
C13_Witness ==
    /\ pc = "check"
    /\ Complete
    /\ \E i \in 1..Len(assembler.packets) :
          assembler.packets[i].line_num >= assembler.height
    /\ \E r \in 0..(assembler.height - 1) : r \notin DOMAIN Assembled.rows
    /\ Assembled.rows # <<>>

\* the input sample and the filtered sample that precede sample i of the latest block,
\* in stream order: those of the block itself, or the last ones of the block before
PrevIn(i, ch) == IF i = 1 THEN probe.prevx[ch] ELSE probe.x[i - 1][ch]
PrevOut(i, ch) == IF i = 1 THEN probe.prevy[ch] ELSE probe.filtered[i - 1][ch]

\* C14: for every channel and every sample of the stream, the value subtracted from the
\* input is the input sample just before it (0 at the start of the stream), and the
\* filtered value is x - last_input + alpha * last_output.
C14_SubtractsPreviousInput ==
    (probe.fn = "dc" /\ probe.blocks >= 1) =>
        \A i \in 1..Len(probe.x) : \A ch \in 1..2 :
            /\ probe.sub[i][ch] = PrevIn(i, ch)
            /\ probe.filtered[i][ch] =
                   FIX * probe.x[i][ch] - FIX * PrevIn(i, ch) + mul_alpha(PrevOut(i, ch))

\* C15: the last input and the last filtered output of a block are both carried into
\* the next one: its first filtered pair is x - (last input of the block before)
\* + alpha * (last filtered output of the block before).
C15_StateCarriedOver ==
    (probe.fn = "dc" /\ probe.blocks >= 2) =>
        \A ch \in 1..2 :
            probe.filtered[1][ch] =
                FIX * probe.x[1][ch] - FIX * probe.prevx[ch] + mul_alpha(probe.prevy[ch])

\* C16: the filter returns one int16 sample per input sample, pair by pair and channel
\* by channel, each within -32768 .. 32767; the first pair of a block is the clipped
\* difference to the last pair of the block before; a 768-byte block is 192 pairs.
C16_OutputShape ==
    (probe.fn = "dc" /\ probe.blocks >= 1) =>
        /\ Len(probe.out) = Len(probe.x)
        /\ \A i \in 1..Len(probe.out) :
              /\ DOMAIN probe.out[i] = DOMAIN probe.x[i]
              /\ \A ch \in 1..2 : probe.out[i][ch] \in INT16_MIN..INT16_MAX
        /\ \A ch \in 1..2 :
              LET d == probe.x[1][ch] - probe.prevx[ch]
              IN  probe.out[1][ch] = (IF d > INT16_MAX THEN INT16_MAX
                                      ELSE IF d < INT16_MIN THEN INT16_MIN ELSE d)
        /\ 2 * 2 * NumPairs([nbytes |-> AUDIO_PAYLOAD_BYTES, pcm |-> "silence"])
              = AUDIO_PAYLOAD_BYTES

\* a second block whose output was clipped at both ends of the int16 range
C16_Witness ==
    /\ probe.fn = "dc"
    /\ probe.blocks = 2
    /\ \E i \in 1..Len(probe.x) :
          /\ probe.filtered[i][1] > INT16_MAX * FIX
          /\ probe.out[i][1] = INT16_MAX
          /\ probe.filtered[i][2] < INT16_MIN * FIX
          /\ probe.out[i][2] = INT16_MIN

\* C17: once the left channel has carried a single sample of 1000 among zeros, every
\* later filtered sample of that channel is nonzero, within the block of the impulse
\* and in the blocks after it.
C17_ImpulseRings ==
    (probe.fn = "dc" /\ probe.imp = "rung") =>
        \A i \in 1..Len(probe.x) :
            (probe.was = "rung" \/ \E j \in 1..(i - 1) : probe.x[j][1] = 1000)
            => probe.filtered[i][1] # 0

\* the block the receive loop cuts from the n-th valid datagram of the stream
StreamBlock(n) == [nbytes |-> AUDIO_PAYLOAD_BYTES, pcm |-> StreamPcm(n)]

\* C18: the audio queue never holds more than 20 blocks; a valid audio datagram is
\* always taken in one step of the receive loop (the loop counts it and goes on): the
\* block joins the end of the queue, or, when 20 blocks are queued, it is discarded
\* and the queue is left exactly as it was.
C18_DropNewest ==
    /\ [](Len(audio_queue) <= AUDIO_QUEUE_MAXSIZE)
    /\ [][ rx' = "audio-ok" =>
             /\ audio_count' = audio_count + 1
             /\ pc' = "recv"
             /\ audio_queue' = IF Len(audio_queue) = AUDIO_QUEUE_MAXSIZE
                               THEN audio_queue
                               ELSE Append(audio_queue, StreamBlock(audio_count)) ]_vars

\* a block has just been discarded at a full queue, after the playback thread had
\* taken blocks out: the newest queued block is not the one just received
C18_Witness ==
    /\ rx = "audio-ok"
    /\ Len(audio_queue) = AUDIO_QUEUE_MAXSIZE
    /\ audio_queue[AUDIO_QUEUE_MAXSIZE] # StreamBlock(audio_count - 1)
    /\ packets_played >= 1

\* the last stereo pair of a block, which filtering it leaves as the filter's last input
LastPair(audio_data) ==
    << Sample(audio_data.pcm, NumPairs(audio_data) - 1, 0),
       Sample(audio_data.pcm, NumPairs(audio_data) - 1, 1) >>

\* C19: a valid audio block is filtered when it is received, whether or not the queue
\* takes it, so the filter state then reflects that block; the playback thread takes
\* filtered blocks out of the queue and does not filter.
C19_FilterThenQueue ==
    [][ /\ rx' = "audio-ok" => dc_filter_state' = LastPair(StreamBlock(audio_count))
        /\ Len(audio_queue') < Len(audio_queue) => UNCHANGED dc_filter_state ]_vars

\* C20: blocks are filtered one at a time, in the order the queue accepted them, by
\* the playback thread alone: while no block has been discarded the queue is a
\* consecutive run of the stream, oldest first; a block leaves the queue only from its
\* head, in a step of the idle playback thread that filters exactly that block; the
\* receive loop never writes the filter state, and nothing is filtered while the
\* playback thread is busy with a block.
C20_SequentialFiltering ==
    /\ [](audio_count <= AUDIO_QUEUE_MAXSIZE =>
            \A i \in 1..Len(audio_queue) :
                audio_queue[i] = StreamBlock(audio_count - Len(audio_queue) + i - 1))
    /\ [][ /\ rx' # "none" => UNCHANGED dc_filter_state
           /\ (Len(audio_queue') < Len(audio_queue) \/ dc_filter_state' # dc_filter_state) =>
                 /\ tpc = "get"
                 /\ audio_queue # <<>>
                 /\ audio_queue' = Tail(audio_queue)
                 /\ dc_filter_state' = LastPair(Head(audio_queue))
           /\ tpc = "busy" => UNCHANGED dc_filter_state ]_vars

\* the receive loop has just queued a block while the playback thread is busy with an
\* earlier one, with blocks waiting and the filter state left by a filtered block
C20_Witness ==
    /\ rx = "audio-ok"
    /\ tpc = "busy"
    /\ packets_played >= 2
    /\ Len(audio_queue) >= 2
    /\ dc_filter_state # <<0, 0>>

\* the command after one call whose connect succeeded and whose send did not raise
Sent == probe.fn = "command" /\ probe.done /\ probe.net.connect = "ok"
        /\ probe.net.send \in {"all", "first-byte", "all-but-one"}

\* s is what the peer was given of the command c: all of it when send took all of it, its
\* beginning otherwise
Gave(c) ==
    /\ probe.out.written = SubSeq(c, 1, Len(probe.out.written))
    /\ probe.net.send = "all" => probe.out.written = c

\* the bytes of a start command for a duration
StartBytes(stream_id, local_ip, port, duration) ==
    LET text == ip_port_bytes(local_ip, port)
        len == 2 + Len(text)
    IN  <<32 + stream_id, 255, len % 256, len \div 256, duration % 256, duration \div 256>>
        \o text

\* C21 as stated: a start command carries the session duration the caller asked for in
\* its bytes 4-5.
C21_StartEncoding ==
    (Sent /\ probe.enable) =>
        Gave(StartBytes(probe.stream_id, probe.local_ip, probe.port, probe.duration))

\* C21: for stream_id in {0,1}, every ASCII address and every port, a start command is
\* 0x20 + stream_id, 0xFF, the little-endian length 2 + len("ip:port"), two zero bytes
\* (duration 0, unbounded) and the ASCII bytes of "ip:port", whatever session duration the
\* caller has in mind; for stream 0, 10.0.0.5 and port 11000 these are the twenty bytes
\* 0x20 0xFF 0x10 0x00 0x00 0x00 "10.0.0.5:11000".
C21_StartEncodingForever ==
    (Sent /\ probe.enable) =>
        /\ Gave(StartBytes(probe.stream_id, probe.local_ip, probe.port, 0))
        /\ (probe.stream_id = 0 /\ Len(probe.local_ip) = 8 /\ probe.port = 11000) =>
              Gave(<<32, 255, 16, 0, 0, 0,
                     49, 48, 46, 48, 46, 48, 46, 53, 58, 49, 49, 48, 48, 48>>)

\* a start command for a name of 260 characters, with a session of 300 in mind: the
\* length needs its high byte and the duration bytes are zero
C21_Witness ==
    /\ Sent
    /\ probe.enable
    /\ probe.net.send = "all"
    /\ probe.duration = 300
    /\ Len(probe.local_ip) = LongNameLen
    /\ probe.out.written[4] = 1
    /\ probe.out.written[5] = 0
    /\ probe.out.written[6] = 0
    /\ probe.out.result

\* C22: for stream_id in {0,1} a stop command is exactly the four bytes 0x30 + stream_id,
\* 0xFF, 0x00, 0x00, whatever the address and the port (stream 1: 0x31 0xFF 0x00 0x00).
C22_StopEncoding ==
    (Sent /\ ~probe.enable) =>
        /\ Gave(<<48 + probe.stream_id, 255, 0, 0>>)
        /\ probe.stream_id = 1 => Gave(<<49, 255, 0, 0>>)

\* a stop command for stream 1 went out whole, called with the long name
C22_Witness ==
    /\ Sent
    /\ ~probe.enable
    /\ probe.net.send = "all"
    /\ probe.stream_id = 1
    /\ Len(probe.local_ip) = LongNameLen
    /\ probe.out.written = <<49, 255, 0, 0>>

\* the whole command of the call
WholeCommand ==
    IF probe.enable THEN StartBytes(probe.stream_id, probe.local_ip, probe.port, 0)
    ELSE <<48 + probe.stream_id, 255, 0, 0>>

\* C23: a call makes exactly one connection attempt and at most one write, never raises,
\* returns False on a failed or timed-out connect, a failed write and a partial write, and
\* returns True only when the whole command was written.
C23_SingleAttempt ==
    (probe.fn = "command" /\ probe.done) =>
        /\ probe.out.connects = 1
        /\ probe.out.sends <= 1
        /\ ~probe.out.raised
        /\ probe.out.result = (probe.out.written = WholeCommand)
        /\ probe.out.result = (probe.net.connect = "ok" /\ probe.net.send = "all")
        /\ probe.net.connect # "ok" => probe.out.sends = 0

\* a start command of which only the first byte went out: False is returned
C23_Witness ==
    /\ probe.fn = "command"
    /\ probe.done
    /\ probe.net.send = "first-byte"
    /\ probe.enable
    /\ probe.out.written = <<32 + probe.stream_id>>
    /\ probe.out.connects = 1
    /\ probe.out.sends = 1
    /\ ~probe.out.result

\* C30: every call has closed its TCP socket when it returns, on every path: success,
\* partial write, connect timeout, connect refusal and write failure.
C30_SocketClosed ==
    (probe.fn = "command" /\ probe.done) =>
        /\ probe.out.closes = 1
        /\ ~probe.out.open

\* C25: whenever is_complete() is true, height is line_num + lines_per_packet of the
\* latest last-flagged packet added since the most recent frame switch; a switch by an
\* unflagged packet leaves height as it was, and no completion is reported until a flagged
\* packet of the new frame number has set it again.
C25_HeightFromCurrentFrame ==
    /\ [](Complete => /\ sinceLast # None
                      /\ assembler.height = sinceLast + LINES_PER_PACKET)
    /\ [][(SwitchStep /\ ~lastCall'.is_last) =>
            /\ assembler'.height = assembler.height
            /\ assembler'.expected_packets = 0]_vars

\* frame number 2 is complete with height 8, not the default 272
C25_Witness ==
    /\ Complete
    /\ assembler.current_frame_num = 2
    /\ assembler.height = 2 * LINES_PER_PACKET
    /\ assembler.height # PAL_HEIGHT
    /\ sinceLast = LINES_PER_PACKET

\* C26 as stated: whenever is_complete() is true, every packet index
\* 0 .. expected_packets-1 is among the stored packets.
C26_NoGap ==
    Complete => \A i \in 0..(assembler.expected_packets - 1) : HasKey(assembler.packets, i)

\* C26: whenever is_complete() is true, at least expected_packets distinct packet indices
\* are stored; every index 0 .. expected_packets-1 is present when no stored packet has an
\* index of expected_packets or more.  A packet above the last-flagged one counts towards
\* completion like any other.
C26_CountedNotCovered ==
    Complete =>
        /\ Cardinality(Keys(assembler.packets)) >= assembler.expected_packets
        /\ Len(assembler.packets) = Cardinality(Keys(assembler.packets))
        /\ (\A k \in Keys(assembler.packets) : k < assembler.expected_packets) =>
              \A i \in 0..(assembler.expected_packets - 1) : HasKey(assembler.packets, i)

\* complete with two packets, the flagged one at index 1 and one above it; index 0 is
\* missing
C26_Witness ==
    /\ Complete
    /\ assembler.expected_packets = 2
    /\ Keys(assembler.packets) = {1, 2}
    /\ ~HasKey(assembler.packets, 0)

\* some frame number was delivered more than once
DeliveredTwice ==
    \E i, j \in 1..Len(hist.delivered) : i < j /\ hist.delivered[i] = hist.delivered[j]

\* every frame number has at most one flagged packet and no packet above it
Tidy(arrived) ==
    \A p, q \in arrived :
        (p.frame = q.frame /\ p.last) => /\ q.idx <= p.idx
                                         /\ q.last => q.idx = p.idx

Terminated == pc \in {"exit", "returned"} \/ (pc = "aborted" /\ socks # "open")

StartsOf(cs) == { i \in 1..Len(cs) : cs[i].enable }
StopsOf(cs) == { i \in 1..Len(cs) : ~cs[i].enable }

\* C24: every start command is sent before the UDP sockets exist, hence before the first
\* datagram is received, and every stop command after they are closed, hence after the
\* last one; datagrams are received only while the sockets are open; and when main has
\* ended, stop commands have been sent exactly if a host is configured, auto-stream is
\* enabled and at least one start command succeeded.
C24_SessionOrdering ==
    /\ [](/\ \A i \in StartsOf(commands) : commands[i].socks = "none"
          /\ \A i \in StopsOf(commands) : commands[i].socks = "closed"
          /\ \A i \in StartsOf(commands), j \in StopsOf(commands) : i < j
          /\ Terminated =>
                ((StopsOf(commands) # {}) <=>
                    /\ ultimate_host # ""
                    /\ ~no_auto_stream
                    /\ \E i \in StartsOf(commands) : commands[i].result))
    /\ [][rx' # "none" => socks = "open" /\ socks' = "open"]_vars

\* __init__ has started the thread and has not returned yet
Constructing == pc \in {"init173", "init176"}

\* a step of the playback thread that reads or writes dc_filter_state or packets_played:
\* a block is taken from the queue and filtered, or the wait for a sound ends
ThreadTouches ==
    \/ tpc = "get" /\ audio_queue' # audio_queue
    \/ tpc = "busy" /\ tpc' # "busy"

\* C28: the playback thread is started before packets_played and dc_filter_state are
\* assigned, and it runs while the constructor goes on; it reads or writes the two
\* attributes only after the constructor has assigned them, because the queue is empty
\* until the constructor has returned.
C28_ConstructorRace ==
    /\ [](/\ Constructing => audio_queue = <<>> /\ tpc \in {"while", "get"}
          /\ terr # "AttributeError")
    /\ [][ThreadTouches => /\ ~Constructing
                           /\ dc_filter_state # Unset
                           /\ packets_played # None]_vars

\* the thread is inside audio_queue.get while packets_played and dc_filter_state are
\* still unassigned
C28_Witness ==
    /\ pc = "init173"
    /\ tpc = "get"
    /\ packets_played = None
    /\ dc_filter_state = Unset
    /\ running

\* stop() has cleared running
Stopped == tpc # "unstarted" /\ ~running

\* C29: once stop() has set running to false, the playback thread leaves its loop,
\* wherever it is: waiting on an empty queue, with blocks queued, waiting for a sound to
\* end, or after a playback error; after that no block is dequeued or filtered and
\* packets_played stays as it is.
C29_ThreadEnds ==
    /\ Stopped ~> (tpc = "exited")
    /\ [][tpc = "exited" =>
            UNCHANGED <<tpc, audio_queue, dc_filter_state, packets_played, terr>>]_vars

\* the thread has ended with a block left in the queue
C29_Witness ==
    /\ tpc = "exited"
    /\ ~running
    /\ audio_queue # <<>>
    /\ packets_played >= 1
====
